---------------------------- MODULE Spec2Model ----------------------------
(***************************************************************************)
(* Intrusive circular doubly linked list of zorolib (zoro/linux/list.h).   *)
(*                                                                         *)
(* Memory is a finite set of struct list_head objects, each living at an   *)
(* integer address.  A pointer is an address: the address of an object,    *)
(* NULL, or one of the two poison values.  Every list function is an       *)
(* operator from memory to memory that performs the function's field       *)
(* writes in program order.                                                *)
(***************************************************************************)
EXTENDS Integers, Sequences, FiniteSets, TLC

(* ------------------------------ bounds --------------------------------- *)
\* number of struct list_head objects used as list heads
NumHeads == 2
\* number of struct list_head objects embedded in entries
NumNodes == 3
\* offsetof(type, member) of the list_head embedded in an entry
MemberOffset == 8
\* the values of the argument stds of zorolog_duplicate are 0..MaxStds
MaxStds == 4
\* the values of the argument flags of zorolog_duplicate are 0..MaxFlags
MaxFlags == 2
\* the file descriptors of a process are 0..MaxFd
MaxFd == 9
\* the program calls write on its standard streams at most MaxWrites times
MaxWrites == 2
\* strlen of a buffer without terminator runs at most MaxOverread bytes past it
MaxOverread == 1

(* ------------------------- program constants --------------------------- *)
NULL == 0
POISON_POINTER_DELTA == 0
LIST_POISON1 == 256 + POISON_POINTER_DELTA
LIST_POISON2 == 290 + POISON_POINTER_DELTA
MAX_STANDARDS == 2
MAX_BUFFER_SIZE == 512
ZOROLOG_DUP_STDOUT == 1
ZOROLOG_DUP_STDERR == 2
ZOROLOG_APPEND == 1
EINVAL == 22
\* the address of the string literal PATH_LOGFILE
PATH_LOGFILE == 1

(* ------------------------------ addresses ------------------------------ *)
Heads == 1..NumHeads
Nodes == (NumHeads + 1)..(NumHeads + NumNodes)
Objs  == Heads \cup Nodes
Ptrs  == Objs \cup {NULL, LIST_POISON1, LIST_POISON2}

VARIABLES
    mem,    \* [next, prev : Objs -> Ptrs, ub : BOOLEAN]: the fields of every
            \* struct list_head; ub is set once an invalid pointer was written through
    stale,  \* heads whose entries were spliced away by a non-init splice and
            \* that were not initialised again
    phase,  \* "free": any sequence of operations;
            \* "build" -> "op" -> "undo": lists are built, then one operation is
            \* observed, then (after an insertion) the removal of the inserted entry;
            \* "ibuild" -> "iter": lists are built, then a loop runs over one;
            \* "fill": entries are added one by one, every addition is recorded;
            \* "cbuild" -> "careful": lists are built, then an entry is deleted
            \* by one process while another tests it;
            \* "ibuild" -> "walk": lists are built, then two loops run over one
            \* and leave it as it is;
            \* "hbuild" -> "hiter": chains are built, then a loop runs over one
    pre,    \* the memory before the observed operation
    hist,   \* the operations recorded, each with its arguments
    hmem,   \* [first : HHeads -> Ptrs, next, pprev : HNodes -> Ptrs, ub : BOOLEAN]:
            \* the fields of every struct hlist_head and struct hlist_node
    iter,   \* the loop in progress: its macro, head, cursors pos and n, where
            \* it stands, the entries its body was given so far (yielded, and
            \* back for a backward loop), the entries the list had when the loop
            \* began, whether a cursor was unusable (bad), whether the body
            \* moved an entry to the tail of the list the loop runs over (tailed)
    careful, \* list_del_init_careful(e) and list_empty_careful(e) running side by
            \* side: the writer's locals and the stores it has done, the reader's
            \* locals, the loads it has done and what it returned; settled tells
            \* whether e.next == e and e.prev == e held at the reader's first load
    zlog    \* a call of zorolog_duplicate: where it stands, its arguments, its
            \* log_config lc, the descriptor table of the process, whether the
            \* logger process was forked, and the value returned

vars == <<mem, stale, phase, pre, hist, hmem, iter, careful, zlog>>

(* ----------------------- single field accesses ------------------------- *)
\* p->next as an rvalue; an invalid p yields no usable value
RdNext(m, p) == IF p \in Objs THEN m.next[p] ELSE NULL
RdPrev(m, p) == IF p \in Objs THEN m.prev[p] ELSE NULL
\* p->next = v; a store through an invalid p is undefined behaviour
WrNext(m, p, v) == IF p \in Objs THEN [m EXCEPT !.next[p] = v]
                                 ELSE [m EXCEPT !.ub = TRUE]
WrPrev(m, p, v) == IF p \in Objs THEN [m EXCEPT !.prev[p] = v]
                                 ELSE [m EXCEPT !.ub = TRUE]

(* --------------------------- list functions ---------------------------- *)
INIT_LIST_HEAD(m, list) ==
    LET m1 == WrNext(m, list, list)
    IN  WrPrev(m1, list, list)

\* __list_add that forgets next->prev = _new
__list_add_no_back_link(m, new, prev, next) ==
    LET m2 == WrNext(m, new, next)
        m3 == WrPrev(m2, new, prev)
    IN  WrNext(m3, prev, new)

__list_add(m, new, prev, next) ==
    LET m1 == WrPrev(m, next, new)
        m2 == WrNext(m1, new, next)
        m3 == WrPrev(m2, new, prev)
    IN  WrNext(m3, prev, new)

\* list_add that also stores the entry as head->prev
list_add_sets_head_prev(m, new, head) ==
    WrPrev(__list_add(m, new, head, RdNext(m, head)), head, new)

\* the k-th assignment of __list_add; the last one is the WRITE_ONCE
__list_add_store(m, k, new, prev, next) ==
    CASE k = 1 -> WrPrev(m, next, new)
      [] k = 2 -> WrNext(m, new, next)
      [] k = 3 -> WrPrev(m, new, prev)
      [] k = 4 -> WrNext(m, prev, new)

list_add(m, new, head) == __list_add(m, new, head, RdNext(m, head))

\* list_add_tail that links the entry after head
list_add_tail_after_head(m, new, head) == __list_add(m, new, head, RdNext(m, head))

list_add_tail(m, new, head) == __list_add(m, new, RdPrev(m, head), head)

\* __list_del that forgets prev->next = next
__list_del_no_forward_link(m, prev, next) == WrPrev(m, next, prev)

__list_del(m, prev, next) ==
    LET m1 == WrPrev(m, next, prev)
    IN  WrNext(m1, prev, next)

__list_del_entry(m, entry) ==
    __list_del(m, RdPrev(m, entry), RdNext(m, entry))

\* list_del that leaves the entry's own fields as they were
list_del_no_poison(m, entry) == __list_del_entry(m, entry)

list_del(m, entry) ==
    LET m1 == __list_del_entry(m, entry)
        m2 == WrNext(m1, entry, LIST_POISON1)
    IN  WrPrev(m2, entry, LIST_POISON2)

\* list_replace that reinitialises old
list_replace_clears_old(m, old, new) ==
    LET m1 == WrNext(m, new, RdNext(m, old))
        m2 == WrPrev(m1, RdNext(m1, new), new)
        m3 == WrPrev(m2, new, RdPrev(m2, old))
        m4 == WrNext(m3, RdPrev(m3, new), new)
    IN  WrPrev(WrNext(m4, old, old), old, old)

list_replace(m, old, new) ==
    LET m1 == WrNext(m, new, RdNext(m, old))
        m2 == WrPrev(m1, RdNext(m1, new), new)
        m3 == WrPrev(m2, new, RdPrev(m2, old))
    IN  WrNext(m3, RdPrev(m3, new), new)

list_replace_init(m, old, new) == INIT_LIST_HEAD(list_replace(m, old, new), old)

\* list_swap without the test for entry2 being right after entry1
list_swap_no_adjacent_case(m, entry1, entry2) ==
    LET pos == RdPrev(m, entry2)
        m1  == list_del(m, entry2)
        m2  == list_replace(m1, entry1, entry2)
    IN  list_add(m2, entry1, pos)

\* list_swap that puts entry1 before the place entry2 was at, not after it
list_swap_adds_before_pos(m, entry1, entry2) ==
    LET pos == RdPrev(m, entry2)
        m1  == list_del(m, entry2)
        m2  == list_replace(m1, entry1, entry2)
        p2  == IF pos = entry1 THEN entry2 ELSE pos
    IN  list_add_tail(m2, entry1, p2)

list_swap(m, entry1, entry2) ==
    LET pos == RdPrev(m, entry2)
        m1  == list_del(m, entry2)
        m2  == list_replace(m1, entry1, entry2)
        pos2 == IF pos = entry1 THEN entry2 ELSE pos
    IN  list_add(m2, entry1, pos2)

\* list_del_init that poisons the entry instead of reinitialising it
list_del_init_poisons(m, entry) ==
    LET m1 == __list_del_entry(m, entry)
    IN  WrPrev(WrNext(m1, entry, LIST_POISON1), entry, LIST_POISON2)

list_del_init(m, entry) == INIT_LIST_HEAD(__list_del_entry(m, entry), entry)

\* list_move that forgets to unlink the entry first
list_move_no_del(m, list, head) == list_add(m, list, head)

list_move(m, list, head) == list_add(__list_del_entry(m, list), list, head)

\* list_move_tail that forgets to unlink the entry first
list_move_tail_no_del(m, list, head) == list_add_tail(m, list, head)

list_move_tail(m, list, head) == list_add_tail(__list_del_entry(m, list), list, head)

\* list_bulk_move_tail that forgets last->next->prev = first->prev
list_bulk_move_tail_no_back_link(m, head, first, last_) ==
    LET m1 == WrNext(m, RdPrev(m, first), RdNext(m, last_))
        m3 == WrNext(m1, RdPrev(m1, head), first)
        m4 == WrPrev(m3, first, RdPrev(m3, head))
        m5 == WrNext(m4, last_, head)
    IN  WrPrev(m5, head, last_)

list_bulk_move_tail(m, head, first, last_) ==
    LET m1 == WrNext(m, RdPrev(m, first), RdNext(m, last_))
        m2 == WrPrev(m1, RdNext(m1, last_), RdPrev(m1, first))
        m3 == WrNext(m2, RdPrev(m2, head), first)
        m4 == WrPrev(m3, first, RdPrev(m3, head))
        m5 == WrNext(m4, last_, head)
    IN  WrPrev(m5, head, last_)

\* list_bulk_move_tail whose stores are only the four that link the run to
\* its new neighbours
list_bulk_move_tail_stores_four(m, head, first, last_) ==
    LET m1 == WrNext(m, RdPrev(m, first), RdNext(m, last_))
        m2 == WrPrev(m1, RdNext(m1, last_), RdPrev(m1, first))
    IN  << <<"next", RdPrev(m2, head)>>, <<"prev", first>>,
           <<"next", last_>>, <<"prev", head>> >>

\* the fields list_bulk_move_tail stores to, one per assignment, in order
list_bulk_move_tail_stores(m, head, first, last_) ==
    LET m1 == WrNext(m, RdPrev(m, first), RdNext(m, last_))
        m2 == WrPrev(m1, RdNext(m1, last_), RdPrev(m1, first))
    IN  << <<"next", RdPrev(m, first)>>, <<"prev", RdNext(m1, last_)>>,
           <<"next", RdPrev(m2, head)>>, <<"prev", first>>,
           <<"next", last_>>, <<"prev", head>> >>

list_is_first(m, list, head) == RdPrev(m, list) = head

list_is_last(m, list, head) == RdNext(m, list) = head

list_empty(m, head) == RdNext(m, head) = head

\* the stores of list_del_init_careful(entry), numbered in program order;
\* prev and next are entry->prev and entry->next as __list_del_entry passes
\* them to __list_del
Stores == 1..4

list_del_init_careful_store(m, k, entry, prev, next) ==
    CASE k = 1 -> WrPrev(m, next, prev)
      [] k = 2 -> WrNext(m, prev, next)
      [] k = 3 -> WrPrev(m, entry, entry)
      [] k = 4 -> WrNext(m, entry, entry)

list_del_init_careful(m, entry) ==
    LET prev == RdPrev(m, entry)
        next == RdNext(m, entry)
        m1 == list_del_init_careful_store(m, 1, entry, prev, next)
        m2 == list_del_init_careful_store(m1, 2, entry, prev, next)
        m3 == list_del_init_careful_store(m2, 3, entry, prev, next)
    IN  list_del_init_careful_store(m3, 4, entry, prev, next)

\* list_empty_careful with != in its second comparison
list_empty_careful_negated(next, prev, head) == next = head /\ next # prev

\* list_empty_careful that does not compare with head->prev
list_empty_careful_next_only(next, prev, head) == next = head

\* list_empty_careful(head) once head->next and head->prev were loaded into
\* next and prev
list_empty_careful(next, prev, head) == next = head /\ next = prev

\* list_rotate_left that moves the first entry behind head, where it was
list_rotate_left_to_front(m, head) ==
    IF ~list_empty(m, head)
    THEN list_move(m, RdNext(m, head), head)
    ELSE m

list_rotate_left(m, head) ==
    IF ~list_empty(m, head)
    THEN list_move_tail(m, RdNext(m, head), head)
    ELSE m

\* list_rotate_to_front that puts head right after list
list_rotate_to_front_behind(m, list, head) == list_move(m, head, list)

list_rotate_to_front(m, list, head) == list_move_tail(m, head, list)

\* list_is_singular without the test for an empty list
list_is_singular_no_empty_test(m, head) == RdNext(m, head) = RdPrev(m, head)

list_is_singular(m, head) ==
    ~list_empty(m, head) /\ RdNext(m, head) = RdPrev(m, head)

\* __list_cut_position that forgets new_first->prev = head
__list_cut_position_no_back_link(m, list, head, entry) ==
    LET new_first == RdNext(m, entry)
        m1 == WrNext(m, list, RdNext(m, head))
        m2 == WrPrev(m1, RdNext(m1, list), list)
        m3 == WrPrev(m2, list, entry)
        m4 == WrNext(m3, entry, list)
    IN  WrNext(m4, head, new_first)

__list_cut_position(m, list, head, entry) ==
    LET new_first == RdNext(m, entry)
        m1 == WrNext(m, list, RdNext(m, head))
        m2 == WrPrev(m1, RdNext(m1, list), list)
        m3 == WrPrev(m2, list, entry)
        m4 == WrNext(m3, entry, list)
        m5 == WrNext(m4, head, new_first)
    IN  WrPrev(m5, new_first, head)

\* list_cut_position that does not treat entry == head apart
list_cut_position_no_head_case(m, list, head, entry) ==
    IF list_empty(m, head) THEN m
    ELSE IF list_is_singular(m, head)
            /\ (RdNext(m, head) # entry /\ head # entry) THEN m
    ELSE __list_cut_position(m, list, head, entry)

\* list_cut_position that initialises list before it returns early
list_cut_position_inits_list(m, list, head, entry) ==
    IF list_empty(m, head) THEN INIT_LIST_HEAD(m, list)
    ELSE IF list_is_singular(m, head)
            /\ (RdNext(m, head) # entry /\ head # entry) THEN INIT_LIST_HEAD(m, list)
    ELSE IF entry = head THEN INIT_LIST_HEAD(m, list)
    ELSE __list_cut_position(m, list, head, entry)

list_cut_position(m, list, head, entry) ==
    IF list_empty(m, head) THEN m
    ELSE IF list_is_singular(m, head)
            /\ (RdNext(m, head) # entry /\ head # entry) THEN m
    ELSE IF entry = head THEN INIT_LIST_HEAD(m, list)
    ELSE __list_cut_position(m, list, head, entry)

\* list_cut_before that forgets head->next = entry
list_cut_before_no_head_relink(m, list, head, entry) ==
    IF RdNext(m, head) = entry THEN INIT_LIST_HEAD(m, list)
    ELSE LET m1 == WrNext(m, list, RdNext(m, head))
             m2 == WrPrev(m1, RdNext(m1, list), list)
             m3 == WrPrev(m2, list, RdPrev(m2, entry))
             m4 == WrNext(m3, RdPrev(m3, list), list)
         IN  WrPrev(m4, entry, head)

list_cut_before(m, list, head, entry) ==
    IF RdNext(m, head) = entry THEN INIT_LIST_HEAD(m, list)
    ELSE LET m1 == WrNext(m, list, RdNext(m, head))
             m2 == WrPrev(m1, RdNext(m1, list), list)
             m3 == WrPrev(m2, list, RdPrev(m2, entry))
             m4 == WrNext(m3, RdPrev(m3, list), list)
             m5 == WrNext(m4, head, entry)
         IN  WrPrev(m5, entry, head)

__list_splice(m, list, prev, next) ==
    LET first == RdNext(m, list)
        last_ == RdPrev(m, list)
        m1 == WrPrev(m, first, prev)
        m2 == WrNext(m1, prev, first)
        m3 == WrNext(m2, last_, next)
    IN  WrPrev(m3, next, last_)

\* list_splice that joins at the tail of head
list_splice_at_tail(m, list, head) ==
    IF ~list_empty(m, list)
    THEN __list_splice(m, list, RdPrev(m, head), head)
    ELSE m

list_splice(m, list, head) ==
    IF ~list_empty(m, list)
    THEN __list_splice(m, list, head, RdNext(m, head))
    ELSE m

\* list_splice_tail without the test for an empty source
list_splice_tail_unchecked(m, list, head) ==
    __list_splice(m, list, RdPrev(m, head), head)

list_splice_tail(m, list, head) ==
    IF ~list_empty(m, list)
    THEN __list_splice(m, list, RdPrev(m, head), head)
    ELSE m

\* list_splice_init that forgets INIT_LIST_HEAD(list)
list_splice_init_no_init(m, list, head) ==
    IF ~list_empty(m, list)
    THEN __list_splice(m, list, head, RdNext(m, head))
    ELSE m

list_splice_init(m, list, head) ==
    IF ~list_empty(m, list)
    THEN INIT_LIST_HEAD(__list_splice(m, list, head, RdNext(m, head)), list)
    ELSE m

list_splice_tail_init(m, list, head) ==
    IF ~list_empty(m, list)
    THEN INIT_LIST_HEAD(__list_splice(m, list, RdPrev(m, head), head), list)
    ELSE m

(* --------------------------- iterator macros --------------------------- *)
container_of(ptr, off) == ptr - off

list_entry(ptr, off) == container_of(ptr, off)

list_first_entry(m, ptr, off) == list_entry(RdNext(m, ptr), off)

\* pos is an entry: its list_head is at pos + off
list_next_entry(m, pos, off) == list_entry(RdNext(m, pos + off), off)

list_entry_is_head(pos, head, off) == pos + off = head

\* list_for_each(pos, head): the initialisation, the condition and the
\* increment of the for statement
list_for_each_init(m, head) == RdNext(m, head)

list_for_each_cond(pos, head) == pos # head

list_for_each_step(m, pos) == RdNext(m, pos)

\* list_for_each_prev(pos, head)
list_for_each_prev_init(m, head) == RdPrev(m, head)

list_for_each_prev_cond(pos, head) == pos # head

\* an increment of list_for_each_prev that follows next
list_for_each_prev_step_forward(m, pos) == RdNext(m, pos)

list_for_each_prev_step(m, pos) == RdPrev(m, pos)

\* list_for_each_safe(pos, n, head): the initialisation, the condition and
\* the increment of the for statement; c holds the cursors pos and n
list_for_each_safe_init(m, head) ==
    LET pos == RdNext(m, head)
    IN  [pos |-> pos, n |-> RdNext(m, pos)]

\* a condition that tests n instead of pos
list_for_each_safe_cond_on_n(c, head) == c.n # head

list_for_each_safe_cond(c, head) == c.pos # head

\* an increment that follows pos->next instead of the saved n
list_for_each_safe_step_unsaved(m, c) ==
    [pos |-> RdNext(m, c.pos), n |-> RdNext(m, RdNext(m, c.pos))]

list_for_each_safe_step(m, c) == [pos |-> c.n, n |-> RdNext(m, c.n)]

\* list_for_each_entry_safe(pos, n, head, member)
list_for_each_entry_safe_init(m, head, off) ==
    LET pos == list_first_entry(m, head, off)
    IN  [pos |-> pos, n |-> list_next_entry(m, pos, off)]

list_for_each_entry_safe_cond(c, head, off) == ~list_entry_is_head(c.pos, head, off)

list_for_each_entry_safe_step(m, c, off) ==
    [pos |-> c.n, n |-> list_next_entry(m, c.n, off)]

(* ----------------------------- hash lists ------------------------------ *)
\* The hash-list objects live in a memory of their own.  first is the only
\* field of a struct hlist_head and next the first field of a struct
\* hlist_node, so &h->first is the address of h and &n->next the address of n:
\* a pprev value is the address of the object whose first field is the slot.
HHeads == Heads
HNodes == Nodes

HRdNext(m, p) == IF p \in HNodes THEN m.next[p] ELSE NULL
HRdPprev(m, p) == IF p \in HNodes THEN m.pprev[p] ELSE NULL
HRdFirst(m, p) == IF p \in HHeads THEN m.first[p] ELSE NULL
HWrNext(m, p, v) == IF p \in HNodes THEN [m EXCEPT !.next[p] = v]
                                    ELSE [m EXCEPT !.ub = TRUE]
HWrPprev(m, p, v) == IF p \in HNodes THEN [m EXCEPT !.pprev[p] = v]
                                     ELSE [m EXCEPT !.ub = TRUE]
HWrFirst(m, p, v) == IF p \in HHeads THEN [m EXCEPT !.first[p] = v]
                                     ELSE [m EXCEPT !.ub = TRUE]
\* *slot as an rvalue and *slot = v, slot being a struct hlist_node **
HRdSlot(m, slot) ==
    IF slot \in HHeads THEN m.first[slot]
    ELSE IF slot \in HNodes THEN m.next[slot] ELSE NULL
HWrSlot(m, slot, v) ==
    IF slot \in HHeads THEN [m EXCEPT !.first[slot] = v]
    ELSE IF slot \in HNodes THEN [m EXCEPT !.next[slot] = v]
    ELSE [m EXCEPT !.ub = TRUE]

INIT_HLIST_HEAD(m, ptr) == HWrFirst(m, ptr, NULL)

INIT_HLIST_NODE(m, h) ==
    LET m1 == HWrNext(m, h, NULL)
    IN  HWrPprev(m1, h, NULL)

hlist_unhashed(m, h) == HRdPprev(m, h) = NULL

hlist_empty(m, h) == HRdFirst(m, h) = NULL

\* __hlist_del that forgets next->pprev = pprev
__hlist_del_no_pprev_fix(m, n) == HWrSlot(m, HRdPprev(m, n), HRdNext(m, n))

__hlist_del(m, n) ==
    LET next  == HRdNext(m, n)
        pprev == HRdPprev(m, n)
        m1    == HWrSlot(m, pprev, next)
    IN  IF next # NULL THEN HWrPprev(m1, next, pprev) ELSE m1

\* hlist_del that poisons the successor's next instead of n's
hlist_del_poisons_successor(m, n) ==
    LET m1 == __hlist_del(m, n)
        m2 == HWrNext(m1, HRdNext(m, n), LIST_POISON1)
    IN  HWrPprev(m2, n, LIST_POISON2)

\* hlist_del that does not poison the node
hlist_del_no_poison(m, n) == __hlist_del(m, n)

hlist_del(m, n) ==
    LET m1 == __hlist_del(m, n)
        m2 == HWrNext(m1, n, LIST_POISON1)
    IN  HWrPprev(m2, n, LIST_POISON2)

\* hlist_del_init that forgets INIT_HLIST_NODE(n)
hlist_del_init_no_init(m, n) ==
    IF ~hlist_unhashed(m, n)
    THEN __hlist_del(m, n)
    ELSE m

hlist_del_init(m, n) ==
    IF ~hlist_unhashed(m, n)
    THEN INIT_HLIST_NODE(__hlist_del(m, n), n)
    ELSE m

\* hlist_add_head that stores h->first before n->next
hlist_add_head_upto_first_first(m, n, h, k) ==
    LET first == HRdFirst(m, h)
        m1 == HWrFirst(m, h, n)
        m2 == HWrNext(m1, n, first)
        m3 == IF first # NULL THEN HWrPprev(m2, first, n) ELSE m2
        m4 == HWrPprev(m3, n, h)
    IN  CASE k = 0 -> m [] k = 1 -> m1 [] k = 2 -> m2 [] k = 3 -> m3 [] OTHER -> m4

\* the memory after the first k statements of hlist_add_head that follow
\* the load of h->first, of hlist_add_before and of hlist_add_behind
hlist_add_head_upto(m, n, h, k) ==
    LET first == HRdFirst(m, h)
        m1 == HWrNext(m, n, first)
        m2 == IF first # NULL THEN HWrPprev(m1, first, n) ELSE m1
        m3 == HWrFirst(m2, h, n)
        m4 == HWrPprev(m3, n, h)
    IN  CASE k = 0 -> m [] k = 1 -> m1 [] k = 2 -> m2 [] k = 3 -> m3 [] OTHER -> m4

hlist_add_before_upto(m, n, next, k) ==
    LET m1 == HWrPprev(m, n, HRdPprev(m, next))
        m2 == HWrNext(m1, n, next)
        m3 == HWrPprev(m2, next, n)
        m4 == HWrSlot(m3, HRdPprev(m3, n), n)
    IN  CASE k = 0 -> m [] k = 1 -> m1 [] k = 2 -> m2 [] k = 3 -> m3 [] OTHER -> m4

hlist_add_behind_upto(m, n, prev, k) ==
    LET m1 == HWrNext(m, n, HRdNext(m, prev))
        m2 == HWrNext(m1, prev, n)
        m3 == HWrPprev(m2, n, prev)
        m4 == IF HRdNext(m3, n) # NULL THEN HWrPprev(m3, HRdNext(m3, n), n) ELSE m3
    IN  CASE k = 0 -> m [] k = 1 -> m1 [] k = 2 -> m2 [] k = 3 -> m3 [] OTHER -> m4

hlist_add_head(m, n, h) ==
    LET first == HRdFirst(m, h)
        m1 == HWrNext(m, n, first)
        m2 == IF first # NULL THEN HWrPprev(m1, first, n) ELSE m1
        m3 == HWrFirst(m2, h, n)
    IN  HWrPprev(m3, n, h)

hlist_add_before(m, n, next) ==
    LET m1 == HWrPprev(m, n, HRdPprev(m, next))
        m2 == HWrNext(m1, n, next)
        m3 == HWrPprev(m2, next, n)
    IN  HWrSlot(m3, HRdPprev(m3, n), n)

\* hlist_add_behind that forgets n->next->pprev = &n->next
hlist_add_behind_no_pprev_fix(m, n, prev) ==
    LET m1 == HWrNext(m, n, HRdNext(m, prev))
        m2 == HWrNext(m1, prev, n)
    IN  HWrPprev(m2, n, prev)

hlist_add_behind(m, n, prev) ==
    LET m1 == HWrNext(m, n, HRdNext(m, prev))
        m2 == HWrNext(m1, prev, n)
        m3 == HWrPprev(m2, n, prev)
    IN  IF HRdNext(m3, n) # NULL THEN HWrPprev(m3, HRdNext(m3, n), n) ELSE m3

\* hlist_add_fake that stores NULL
hlist_add_fake_null(m, n) == HWrPprev(m, n, NULL)

hlist_add_fake(m, n) == HWrPprev(m, n, n)

hlist_fake(m, h) == HRdPprev(m, h) = h

\* hlist_is_singular_node without the test of n->next
hlist_is_singular_node_no_next_test(m, n, h) == HRdPprev(m, n) = h

hlist_is_singular_node(m, n, h) == HRdNext(m, n) = NULL /\ HRdPprev(m, n) = h

\* hlist_move_list that forgets new->first->pprev = &new->first
hlist_move_list_no_pprev_fix(m, old, new) ==
    LET m1 == HWrFirst(m, new, HRdFirst(m, old))
    IN  HWrFirst(m1, old, NULL)

hlist_move_list(m, old, new) ==
    LET m1 == HWrFirst(m, new, HRdFirst(m, old))
        m2 == IF HRdFirst(m1, new) # NULL
              THEN HWrPprev(m1, HRdFirst(m1, new), new) ELSE m1
    IN  HWrFirst(m2, old, NULL)

hlist_entry(ptr, off) == container_of(ptr, off)

hlist_entry_safe(ptr, off) == IF ptr # NULL THEN hlist_entry(ptr, off) ELSE NULL

\* hlist_for_each_safe(pos, n, head): the initialisation, the two parts of
\* the condition (the test of pos, then n = pos->next) and the increment of
\* the for statement; c holds the cursors pos and n, n not being set by the
\* initialisation
hlist_for_each_safe_init(m, head, c) == [c EXCEPT !.pos = HRdFirst(m, head)]

hlist_for_each_safe_cond(c) == c.pos # NULL

hlist_for_each_safe_save(m, c) == [c EXCEPT !.n = HRdNext(m, c.pos)]

\* an increment that follows pos->next instead of the saved n
hlist_for_each_safe_step_unsaved(m, c) == [c EXCEPT !.pos = HRdNext(m, c.pos)]

hlist_for_each_safe_step(m, c) == [c EXCEPT !.pos = c.n]

\* hlist_for_each_entry_safe(pos, n, head, member): pos is an entry, whose
\* hlist_node is at pos + off, and n a node
hlist_for_each_entry_safe_init(m, head, c, off) ==
    [c EXCEPT !.pos = hlist_entry_safe(HRdFirst(m, head), off)]

hlist_for_each_entry_safe_cond(c) == c.pos # NULL

hlist_for_each_entry_safe_save(m, c, off) == [c EXCEPT !.n = HRdNext(m, c.pos + off)]

hlist_for_each_entry_safe_step(m, c, off) == [c EXCEPT !.pos = hlist_entry_safe(c.n, off)]

\* hlist_for_each(pos, head): the addresses pos takes, in order; the walk is
\* cut off after every node was seen once or at an invalid pointer
RECURSIVE HForEachFrom(_, _, _)
HForEachFrom(m, pos, fuel) ==
    IF pos \notin HNodes \/ fuel = 0 THEN <<>>
    ELSE <<pos>> \o HForEachFrom(m, m.next[pos], fuel - 1)

hlist_for_each(m, head) == HForEachFrom(m, HRdFirst(m, head), Cardinality(HNodes))

(* ------------------------------ traversal ------------------------------ *)
\* list_for_each(pos, head): the addresses pos takes, in order; the walk is
\* cut off after every object was seen once or at an invalid pointer
RECURSIVE ForEachFrom(_, _, _, _)
ForEachFrom(m, head, pos, fuel) ==
    IF pos = head \/ pos \notin Objs \/ fuel = 0 THEN <<>>
    ELSE <<pos>> \o ForEachFrom(m, head, m.next[pos], fuel - 1)

list_for_each(m, head) ==
    ForEachFrom(m, head, RdNext(m, head), Cardinality(Objs))

\* list_for_each_prev(pos, head)
RECURSIVE ForEachPrevFrom(_, _, _, _)
ForEachPrevFrom(m, head, pos, fuel) ==
    IF pos = head \/ pos \notin Objs \/ fuel = 0 THEN <<>>
    ELSE <<pos>> \o ForEachPrevFrom(m, head, m.prev[pos], fuel - 1)

list_for_each_prev(m, head) ==
    ForEachPrevFrom(m, head, RdPrev(m, head), Cardinality(Objs))

Range(s) == {s[i] : i \in 1..Len(s)}

Reverse(s) == [i \in 1..Len(s) |-> s[Len(s) + 1 - i]]

\* head and its entries form one circular chain with reciprocal links
WellFormed(m, head) ==
    LET ring == <<head>> \o list_for_each(m, head)
        k    == Len(ring)
    IN  /\ Cardinality(Range(ring)) = k
        /\ \A i \in 1..k :
              LET j == IF i = k THEN 1 ELSE i + 1
              IN  m.next[ring[i]] = ring[j] /\ m.prev[ring[j]] = ring[i]

\* the objects that are entries of some well-formed list
Linked(m) ==
    UNION {Range(list_for_each(m, h)) : h \in {g \in Heads : WellFormed(m, g)}}

Detached(m, n) == n \in Nodes \ Linked(m)

Member(m, n, head) == n \in Range(list_for_each(m, head))


(* ----------------------------- the program ----------------------------- *)
NoOp == [op |-> "none", a |-> NULL, b |-> NULL, c |-> NULL]

Op(name, a, b, c) == [op |-> name, a |-> a, b |-> b, c |-> c]

\* every object is initialised: heads are empty lists, entries are detached
InitMem ==
    [next |-> [o \in Objs |-> o], prev |-> [o \in Objs |-> o], ub |-> FALSE]

\* no loop is running
NoIter ==
    [pc |-> "idle", entry |-> FALSE, head |-> NULL, cur |-> [pos |-> NULL, n |-> NULL],
     yielded |-> <<>>, entries |-> <<>>, bad |-> FALSE, tailed |-> FALSE,
     back |-> <<>>]

\* neither list_del_init_careful nor list_empty_careful was called
NoCareful ==
    [e |-> NULL, prev |-> NULL, next |-> NULL, stored |-> {},
     rpc |-> "idle", loaded |-> {}, rnext |-> NULL, rprev |-> NULL, ret |-> FALSE,
     settled |-> FALSE, inorder |-> TRUE]

\* the descriptors of a process that has its three standard streams open
InitFds == [fd \in 0..MaxFd |-> CASE fd = 0 -> "stdin" [] fd = 1 -> "stdout"
                                   [] fd = 2 -> "stderr" [] OTHER -> "closed"]

\* zorolog_duplicate was not called.  Beside the fields of the call there
\* are those of the logger process (its descriptor table cfds, its position
\* lpc in process_logger, the array fds given to poll as pollfd and revents,
\* the loop index li, buffer, ret as lret), the bytes held by the two pipes,
\* the bytes that reached the original streams (out) and the log file (log),
\* and of the program the bytes its writes put into each pipe (written),
\* the number of its writes (nw) and whether it has terminated (pexit)
NoLog ==
    [pc |-> "idle", logfile |-> NULL, stds |-> 0, flags |-> 0, i |-> 0,
     lc |-> [stdsdup |-> <<0, 0>>, pipes |-> <<<<-1, -1>>, <<-1, -1>>>>,
             custom_stds |-> <<-1, -1>>, fd_logfile |-> -1, append |-> FALSE],
     fds |-> InitFds, child |-> FALSE, err |-> "none", ret |-> 0,
     cfds |-> InitFds, lpc |-> "none", pollfd |-> <<-1, -1>>, revents |-> <<{}, {}>>,
     li |-> 0, buffer |-> <<>>, lret |-> 0, pipe |-> <<<<>>, <<>>>>,
     out |-> [t \in {"stdout", "stderr"} |-> <<>>], log |-> <<>>,
     written |-> <<<<>>, <<>>>>, nw |-> 0, pexit |-> FALSE]

\* every hash-list object is initialised: heads are empty, nodes are unhashed
InitHMem ==
    [first |-> [o \in HHeads |-> NULL], next |-> [o \in HNodes |-> NULL],
     pprev |-> [o \in HNodes |-> NULL], ub |-> FALSE]

Init ==
    /\ mem = InitMem
    /\ stale = {}
    /\ phase = "free"
    /\ pre = InitMem
    /\ hist = <<>>
    /\ hmem = InitHMem
    /\ iter = NoIter
    /\ careful = NoCareful
    /\ zlog = NoLog

InitOp ==
    /\ mem = InitMem
    /\ stale = {}
    /\ phase = "build"
    /\ pre = InitMem
    /\ hist = <<>>
    /\ hmem = InitHMem
    /\ iter = NoIter
    /\ careful = NoCareful
    /\ zlog = NoLog

InitH ==
    /\ mem = InitMem
    /\ stale = {}
    /\ phase = "free"
    /\ pre = InitHMem
    /\ hist = <<>>
    /\ hmem = InitHMem
    /\ iter = NoIter
    /\ careful = NoCareful
    /\ zlog = NoLog

\* the last operation recorded
last == IF hist = <<>> THEN NoOp ELSE hist[Len(hist)]

\* the operations lists are built with before an operation is observed
BuildOps == {"list_add", "list_add_tail", "list_del", "list_del_init"}

\* o removes the entry that the observed operation has just inserted
Undoes(o) ==
    /\ last.op \in {"list_add", "list_add_tail"}
    /\ o.op \in {"list_del", "list_del_init"}
    /\ o.a = last.a

ValidHeads(m) == {h \in Heads : WellFormed(m, h)}

\* positions an entry can be added at: a usable head or an entry of a list
Positions(m) == ValidHeads(m) \cup Linked(m)

\* the contiguous runs first..last of the entries of head
Runs(m, head) ==
    LET s == list_for_each(m, head)
    IN  {<<s[i], s[j]>> : i \in 1..Len(s), j \in 1..Len(s)} \cap
        {<<s[i], s[j]>> : <<i, j>> \in {ij \in (1..Len(s)) \X (1..Len(s)) : ij[1] <= ij[2]}}

\* the list function called name can be called now: at any time in a free
\* run, and as the observed operation after lists were built; while lists
\* are built only the functions that build them; after an observed insertion
\* only the functions that delete; while entries are added one by one only
\* the functions that add; at any time in a run that keeps every head usable
CanRun(name) ==
    \/ phase \in {"free", "build", "keep"}
    \/ phase \in {"ibuild", "cbuild"} /\ name \in BuildOps
    \/ phase = "fill" /\ name \in {"list_add", "list_add_tail"}
    \/ phase = "op" /\ last.op \in {"list_add", "list_add_tail"}
                    /\ name \in {"list_del", "list_del_init"}

\* operation o takes the memory to m2; a free run keeps no record
Step(o, m2, st) ==
    /\ \/ phase = "free" /\ UNCHANGED <<phase, pre, hist>>
       \/ phase \in {"build", "ibuild", "cbuild"} /\ o.op \in BuildOps
                      /\ UNCHANGED <<phase, pre, hist>>
       \/ phase = "fill" /\ phase' = phase /\ pre' = mem /\ hist' = Append(hist, o)
       \/ phase = "keep" /\ phase' = phase /\ pre' = mem /\ hist' = <<o>>
       \/ phase = "build" /\ phase' = "op" /\ pre' = mem /\ hist' = <<o>>
       \/ phase = "op" /\ Undoes(o) /\ phase' = "undo" /\ pre' = pre
                      /\ hist' = Append(hist, o)
    /\ mem' = m2
    /\ stale' = st
    /\ hmem' = hmem
    /\ iter' = iter
    /\ careful' = careful
    /\ zlog' = zlog

\* INIT_LIST_HEAD on an empty or stale head, or on a detached entry
DoInitListHead ==
    /\ CanRun("INIT_LIST_HEAD")
    /\ \E l \in Objs :
           /\ \/ l \in Heads /\ (list_empty(mem, l) \/ ~WellFormed(mem, l))
              \/ Detached(mem, l)
           /\ Step(Op("INIT_LIST_HEAD", l, NULL, NULL), INIT_LIST_HEAD(mem, l), stale \ {l})

DoListAdd ==
    /\ CanRun("list_add")
    /\ \E new \in Nodes, head \in Positions(mem) :
           /\ Detached(mem, new)
           /\ Step(Op("list_add", new, head, NULL), list_add(mem, new, head), stale)

DoListAddTail ==
    /\ CanRun("list_add_tail")
    /\ \E new \in Nodes, head \in Positions(mem) :
           /\ Detached(mem, new)
           /\ Step(Op("list_add_tail", new, head, NULL), list_add_tail(mem, new, head), stale)

DoListDel ==
    /\ CanRun("list_del")
    /\ \E entry \in Linked(mem) :
           Step(Op("list_del", entry, NULL, NULL), list_del(mem, entry), stale)

DoListDelInit ==
    /\ CanRun("list_del_init")
    /\ \E entry \in Linked(mem) :
           Step(Op("list_del_init", entry, NULL, NULL), list_del_init(mem, entry), stale)

DoListReplace ==
    /\ CanRun("list_replace")
    /\ \E old \in Linked(mem), new \in Nodes :
           /\ Detached(mem, new)
           /\ Step(Op("list_replace", old, new, NULL), list_replace(mem, old, new), stale)

DoListReplaceInit ==
    /\ CanRun("list_replace_init")
    /\ \E old \in Linked(mem), new \in Nodes :
           /\ Detached(mem, new)
           /\ Step(Op("list_replace_init", old, new, NULL), list_replace_init(mem, old, new), stale)

DoListSwap ==
    /\ CanRun("list_swap")
    /\ \E entry1 \in Linked(mem), entry2 \in Linked(mem) :
           /\ entry1 # entry2
           /\ Step(Op("list_swap", entry1, entry2, NULL), list_swap(mem, entry1, entry2), stale)

DoListMove ==
    /\ CanRun("list_move")
    /\ \E list \in Linked(mem), head \in ValidHeads(mem) :
           Step(Op("list_move", list, head, NULL), list_move(mem, list, head), stale)

DoListMoveTail ==
    /\ CanRun("list_move_tail")
    /\ \E list \in Linked(mem), head \in ValidHeads(mem) :
           Step(Op("list_move_tail", list, head, NULL), list_move_tail(mem, list, head), stale)

DoListBulkMoveTail ==
    /\ CanRun("list_bulk_move_tail")
    /\ \E head \in ValidHeads(mem) :
           \E r \in Runs(mem, head) :
               Step(Op("list_bulk_move_tail", head, r[1], r[2]),
                    list_bulk_move_tail(mem, head, r[1], r[2]), stale)

DoListRotateLeft ==
    /\ CanRun("list_rotate_left")
    /\ \E head \in ValidHeads(mem) :
           Step(Op("list_rotate_left", head, NULL, NULL), list_rotate_left(mem, head), stale)

DoListRotateToFront ==
    /\ CanRun("list_rotate_to_front")
    /\ \E head \in ValidHeads(mem) :
           \E list \in Range(list_for_each(mem, head)) :
               Step(Op("list_rotate_to_front", list, head, NULL),
                    list_rotate_to_front(mem, list, head), stale)

\* the destination of a cut: any other head; what it held is lost
CutDest(m, head) == Heads \ {head}

DoListCutPosition ==
    /\ CanRun("list_cut_position")
    /\ \E head \in ValidHeads(mem) :
           \E list \in CutDest(mem, head), entry \in Range(list_for_each(mem, head)) \cup {head} :
               LET m2 == list_cut_position(mem, list, head, entry)
               IN  Step(Op("list_cut_position", list, head, entry), m2,
                        IF list_empty(mem, head) THEN stale ELSE stale \ {list})

DoListCutBefore ==
    /\ CanRun("list_cut_before")
    /\ \E head \in ValidHeads(mem) :
           \E list \in CutDest(mem, head), entry \in Range(list_for_each(mem, head)) \cup {head} :
               Step(Op("list_cut_before", list, head, entry),
                    list_cut_before(mem, list, head, entry), stale \ {list})

DoListSplice ==
    /\ CanRun("list_splice")
    /\ \E list \in ValidHeads(mem), head \in ValidHeads(mem) :
           /\ list # head
           /\ Step(Op("list_splice", list, head, NULL), list_splice(mem, list, head),
                   IF list_empty(mem, list) THEN stale ELSE stale \cup {list})

DoListSpliceTail ==
    /\ CanRun("list_splice_tail")
    /\ \E list \in ValidHeads(mem), head \in ValidHeads(mem) :
           /\ list # head
           /\ Step(Op("list_splice_tail", list, head, NULL), list_splice_tail(mem, list, head),
                   IF list_empty(mem, list) THEN stale ELSE stale \cup {list})

DoListSpliceInit ==
    /\ CanRun("list_splice_init")
    /\ \E list \in ValidHeads(mem), head \in ValidHeads(mem) :
           /\ list # head
           /\ Step(Op("list_splice_init", list, head, NULL), list_splice_init(mem, list, head), stale)

DoListSpliceTailInit ==
    /\ CanRun("list_splice_tail_init")
    /\ \E list \in ValidHeads(mem), head \in ValidHeads(mem) :
           /\ list # head
           /\ Step(Op("list_splice_tail_init", list, head, NULL),
                   list_splice_tail_init(mem, list, head), stale)

Next ==
    \/ DoInitListHead
    \/ DoListAdd
    \/ DoListAddTail
    \/ DoListDel
    \/ DoListDelInit
    \/ DoListReplace
    \/ DoListReplaceInit
    \/ DoListSwap
    \/ DoListMove
    \/ DoListMoveTail
    \/ DoListBulkMoveTail
    \/ DoListRotateLeft
    \/ DoListRotateToFront
    \/ DoListCutPosition
    \/ DoListCutBefore
    \/ DoListSplice
    \/ DoListSpliceTail
    \/ DoListSpliceInit
    \/ DoListSpliceTailInit

Spec == Init /\ [][Next]_vars

\* one observed operation on lists built beforehand
SpecOp == InitOp /\ [][Next]_vars

(* ------------- a run of the functions that keep heads usable ------------ *)
\* every call is recorded with the memory before it; the functions are those
\* that leave no head behind that still points into a list
InitKeep ==
    /\ mem = InitMem
    /\ stale = {}
    /\ phase = "keep"
    /\ pre = InitMem
    /\ hist = <<>>
    /\ hmem = InitHMem
    /\ iter = NoIter
    /\ careful = NoCareful
    /\ zlog = NoLog

\* list_cut_position and list_cut_before into an empty destination
KeepListCutPosition ==
    \E head \in ValidHeads(mem) :
        \E list \in Heads \ {head}, entry \in Range(list_for_each(mem, head)) \cup {head} :
            /\ phase = "keep"
            /\ list_empty(mem, list)
            /\ Step(Op("list_cut_position", list, head, entry),
                    list_cut_position(mem, list, head, entry), stale)

KeepListCutBefore ==
    \E head \in ValidHeads(mem) :
        \E list \in Heads \ {head}, entry \in Range(list_for_each(mem, head)) \cup {head} :
            /\ phase = "keep"
            /\ list_empty(mem, list)
            /\ Step(Op("list_cut_before", list, head, entry),
                    list_cut_before(mem, list, head, entry), stale)

NextKeep ==
    \/ DoListAdd
    \/ DoListAddTail
    \/ DoListDel
    \/ DoListDelInit
    \/ DoListMove
    \/ DoListMoveTail
    \/ DoListSpliceInit
    \/ DoListSpliceTailInit
    \/ KeepListCutPosition
    \/ KeepListCutBefore
    \/ DoListBulkMoveTail
    \/ DoListRotateLeft
    \/ DoListSwap

SpecKeep == InitKeep /\ [][NextKeep]_vars

(* ---------------------- entries added one by one ----------------------- *)
\* every head is an empty list and every addition is recorded
InitFill ==
    /\ mem = InitMem
    /\ stale = {}
    /\ phase = "fill"
    /\ pre = InitMem
    /\ hist = <<>>
    /\ hmem = InitHMem
    /\ iter = NoIter
    /\ careful = NoCareful
    /\ zlog = NoLog

NextFill ==
    \/ DoListAdd
    \/ DoListAddTail

SpecFill == InitFill /\ [][NextFill]_vars

(* ------------------- a safe loop that deletes entries ------------------ *)
InitIter ==
    /\ mem = InitMem
    /\ stale = {}
    /\ phase = "ibuild"
    /\ pre = InitMem
    /\ hist = <<>>
    /\ hmem = InitHMem
    /\ iter = NoIter
    /\ careful = NoCareful
    /\ zlog = NoLog

\* offsetof(type, member); list_for_each_safe works on the list_heads themselves
Off == IF iter.entry THEN MemberOffset ELSE 0

\* the list_head of the entry at cursor p
MemberOf(p) == p + Off

\* the address is not an object, or it is an entry the body has removed
Unusable(a) == a \notin Objs \/ a \in Range(iter.yielded)

\* the for statement is entered: pos and n are initialised
IterBegin ==
    \E head \in ValidHeads(mem), entry \in BOOLEAN :
        /\ phase = "ibuild"
        /\ phase' = "iter"
        /\ iter' = [pc |-> "test", entry |-> entry, head |-> head,
                    cur |-> IF entry
                            THEN list_for_each_entry_safe_init(mem, head, MemberOffset)
                            ELSE list_for_each_safe_init(mem, head),
                    yielded |-> <<>>, entries |-> list_for_each(mem, head),
                    bad |-> FALSE, tailed |-> FALSE, back |-> <<>>]
        /\ UNCHANGED <<mem, stale, pre, hist, hmem, careful, zlog>>

\* the condition of the for statement
IterCond ==
    IF iter.entry THEN list_for_each_entry_safe_cond(iter.cur, iter.head, MemberOffset)
                  ELSE list_for_each_safe_cond(iter.cur, iter.head)

\* the body is given pos and removes it with del
IterBody(name, m2) ==
    /\ phase = "iter" /\ iter.pc = "test" /\ IterCond
    /\ mem' = m2
    /\ hist' = <<Op(name, MemberOf(iter.cur.pos), NULL, NULL)>>
    /\ iter' = [iter EXCEPT !.pc = "step",
                             !.yielded = Append(@, MemberOf(iter.cur.pos)),
                             !.bad = @ \/ Unusable(MemberOf(iter.cur.pos))]
    /\ UNCHANGED <<stale, phase, pre, hmem, careful, zlog>>

IterBodyListDel == IterBody("list_del", list_del(mem, MemberOf(iter.cur.pos)))

IterBodyListDelInit ==
    IterBody("list_del_init", list_del_init(mem, MemberOf(iter.cur.pos)))

\* the increment of the for statement: pos = n, n = pos->next
IterStep ==
    /\ phase = "iter" /\ iter.pc = "step"
    /\ iter' = [iter EXCEPT !.pc = "test",
                             !.cur = IF iter.entry
                                     THEN list_for_each_entry_safe_step(mem, @, MemberOffset)
                                     ELSE list_for_each_safe_step(mem, @),
                             !.bad = @ \/ Unusable(MemberOf(iter.cur.n))]
    /\ UNCHANGED <<mem, stale, phase, pre, hist, hmem, careful, zlog>>

\* the condition fails: the loop is left
IterEnd ==
    /\ phase = "iter" /\ iter.pc = "test" /\ ~IterCond
    /\ iter' = [iter EXCEPT !.pc = "done"]
    /\ UNCHANGED <<mem, stale, phase, pre, hist, hmem, careful, zlog>>

IterRun == IterBodyListDel \/ IterBodyListDelInit \/ IterStep \/ IterEnd

NextIter ==
    \/ DoListAdd
    \/ DoListAddTail
    \/ DoListDel
    \/ DoListDelInit
    \/ IterBegin
    \/ IterBodyListDel
    \/ IterBodyListDelInit
    \/ IterStep
    \/ IterEnd

\* a loop that was entered keeps running: it is sequential code
SpecIter == InitIter /\ [][NextIter]_vars /\ WF_vars(IterRun)

(* ------------------ a safe loop that relocates entries ----------------- *)
\* the body is given pos and relocates it to head dest.  The record of what
\* the body was given stops growing once it is longer than the list was
IterBodyMove(name, dest, m2) ==
    /\ phase = "iter" /\ iter.pc = "test" /\ IterCond
    /\ mem' = m2
    /\ hist' = <<Op(name, MemberOf(iter.cur.pos), dest, NULL)>>
    /\ iter' = [iter EXCEPT !.pc = "step",
                             !.yielded = IF Len(@) <= Len(iter.entries)
                                         THEN Append(@, MemberOf(iter.cur.pos)) ELSE @,
                             !.bad = @ \/ MemberOf(iter.cur.pos) \notin Objs,
                             !.tailed = @ \/ (name = "list_move_tail" /\ dest = iter.head)]
    /\ UNCHANGED <<stale, phase, pre, hmem, careful, zlog>>

IterBodyListMove ==
    \E dest \in Heads :
        IterBodyMove("list_move", dest, list_move(mem, MemberOf(iter.cur.pos), dest))

IterBodyListMoveTail ==
    \E dest \in Heads :
        IterBodyMove("list_move_tail", dest, list_move_tail(mem, MemberOf(iter.cur.pos), dest))

IterMoveRun == IterBodyListMove \/ IterBodyListMoveTail \/ IterStep \/ IterEnd

NextIterMove ==
    \/ DoListAdd
    \/ DoListAddTail
    \/ DoListDel
    \/ DoListDelInit
    \/ IterBegin
    \/ IterBodyListMove
    \/ IterBodyListMoveTail
    \/ IterStep
    \/ IterEnd

\* a loop that was entered keeps running: it is sequential code
SpecIterMove == InitIter /\ [][NextIterMove]_vars /\ WF_vars(IterMoveRun)

(* -------------- loops over a list that is left as it is ---------------- *)
\* what a loop has given its body, with pos added; the record stops growing
\* once it is longer than the number of objects
Given(s, pos) == IF Len(s) <= Cardinality(Objs) THEN Append(s, pos) ELSE s

\* list_for_each(pos, head) is entered
WalkBegin ==
    \E head \in ValidHeads(mem) :
        /\ phase = "ibuild"
        /\ phase' = "walk"
        /\ iter' = [NoIter EXCEPT !.pc = "fwd", !.head = head,
                                  !.cur.pos = list_for_each_init(mem, head),
                                  !.entries = list_for_each(mem, head)]
        /\ UNCHANGED <<mem, stale, pre, hist, hmem, careful, zlog>>

\* its condition holds: the body, which changes nothing, is given pos, and
\* the increment is made
WalkForward ==
    /\ phase = "walk" /\ iter.pc = "fwd"
    /\ list_for_each_cond(iter.cur.pos, iter.head)
    /\ iter' = [iter EXCEPT !.yielded = Given(@, iter.cur.pos),
                             !.bad = @ \/ iter.cur.pos \notin Objs,
                             !.cur.pos = list_for_each_step(mem, iter.cur.pos)]
    /\ UNCHANGED <<mem, stale, phase, pre, hist, hmem, careful, zlog>>

\* its condition fails; list_for_each_prev(pos, head) is entered
WalkForwardEnd ==
    /\ phase = "walk" /\ iter.pc = "fwd"
    /\ ~list_for_each_cond(iter.cur.pos, iter.head)
    /\ iter' = [iter EXCEPT !.pc = "bwd",
                             !.cur.pos = list_for_each_prev_init(mem, iter.head)]
    /\ UNCHANGED <<mem, stale, phase, pre, hist, hmem, careful, zlog>>

WalkBackward ==
    /\ phase = "walk" /\ iter.pc = "bwd"
    /\ list_for_each_prev_cond(iter.cur.pos, iter.head)
    /\ iter' = [iter EXCEPT !.back = Given(@, iter.cur.pos),
                             !.bad = @ \/ iter.cur.pos \notin Objs,
                             !.cur.pos = list_for_each_prev_step(mem, iter.cur.pos)]
    /\ UNCHANGED <<mem, stale, phase, pre, hist, hmem, careful, zlog>>

WalkBackwardEnd ==
    /\ phase = "walk" /\ iter.pc = "bwd"
    /\ ~list_for_each_prev_cond(iter.cur.pos, iter.head)
    /\ iter' = [iter EXCEPT !.pc = "done"]
    /\ UNCHANGED <<mem, stale, phase, pre, hist, hmem, careful, zlog>>

WalkRun == WalkForward \/ WalkForwardEnd \/ WalkBackward \/ WalkBackwardEnd

NextWalk ==
    \/ DoListAdd
    \/ DoListAddTail
    \/ DoListDel
    \/ DoListDelInit
    \/ WalkBegin
    \/ WalkForward
    \/ WalkForwardEnd
    \/ WalkBackward
    \/ WalkBackwardEnd

\* a loop that was entered keeps running: it is sequential code
SpecWalk == InitIter /\ [][NextWalk]_vars /\ WF_vars(WalkRun)

(* ------- list_del_init_careful against list_empty_careful -------------- *)
\* lists are built first
InitCareful ==
    /\ mem = InitMem
    /\ stale = {}
    /\ phase = "cbuild"
    /\ pre = InitMem
    /\ hist = <<>>
    /\ hmem = InitHMem
    /\ iter = NoIter
    /\ careful = NoCareful
    /\ zlog = NoLog

\* e.next == e and e.prev == e
SelfReferencing(m, e) == RdNext(m, e) = e /\ RdPrev(m, e) = e

\* one process calls list_del_init_careful(e) on a linked entry:
\* __list_del_entry loads e->prev and e->next
DelInitCarefulCall ==
    \E e \in Linked(mem) :
        /\ phase = "cbuild"
        /\ phase' = "careful"
        /\ pre' = mem
        /\ careful' = [careful EXCEPT !.e = e, !.prev = RdPrev(mem, e),
                                      !.next = RdNext(mem, e)]
        /\ UNCHANGED <<mem, stale, hist, hmem, iter, zlog>>

\* one store of list_del_init_careful reaches memory.  The stores are plain
\* assignments to distinct fields made while another process reads them, so
\* they reach memory in any order
DelInitCarefulStore ==
    \E k \in Stores \ careful.stored :
        /\ phase = "careful"
        /\ mem' = list_del_init_careful_store(mem, k, careful.e, careful.prev, careful.next)
        /\ careful' = [careful EXCEPT !.stored = @ \cup {k}]
        /\ UNCHANGED <<stale, phase, pre, hist, hmem, iter, zlog>>

\* the other process, in list_empty_careful(e), loads e->next
EmptyCarefulLoadNext ==
    /\ phase = "careful" /\ careful.rpc # "done"
    /\ "next" \notin careful.loaded
    /\ careful' = [careful EXCEPT !.rpc = "run", !.loaded = @ \cup {"next"},
                                  !.rnext = RdNext(mem, careful.e),
                                  !.settled = IF careful.loaded = {}
                                              THEN SelfReferencing(mem, careful.e) ELSE @]
    /\ UNCHANGED <<mem, stale, phase, pre, hist, hmem, iter, zlog>>

\* it loads e->prev: a plain load, which the build may place before the load
\* of e->next
EmptyCarefulLoadPrev ==
    /\ phase = "careful" /\ careful.rpc # "done"
    /\ "prev" \notin careful.loaded
    /\ careful' = [careful EXCEPT !.rpc = "run", !.loaded = @ \cup {"prev"},
                                  !.rprev = RdPrev(mem, careful.e),
                                  !.settled = IF careful.loaded = {}
                                              THEN SelfReferencing(mem, careful.e) ELSE @]
    /\ UNCHANGED <<mem, stale, phase, pre, hist, hmem, iter, zlog>>

\* list_empty_careful returns; e->prev is not needed when next != head
EmptyCarefulReturn ==
    /\ phase = "careful" /\ careful.rpc = "run"
    /\ "next" \in careful.loaded
    /\ careful.rnext # careful.e \/ "prev" \in careful.loaded
    /\ careful' = [careful EXCEPT !.rpc = "done",
                                  !.ret = list_empty_careful(careful.rnext, careful.rprev,
                                                             careful.e)]
    /\ UNCHANGED <<mem, stale, phase, pre, hist, hmem, iter, zlog>>

NextCareful ==
    \/ DoListAdd
    \/ DoListAddTail
    \/ DoListDel
    \/ DoListDelInit
    \/ DelInitCarefulCall
    \/ DelInitCarefulStore
    \/ EmptyCarefulLoadNext
    \/ EmptyCarefulLoadPrev
    \/ EmptyCarefulReturn

SpecCareful == InitCareful /\ [][NextCareful]_vars

(* ------------------------ the hash-list program ------------------------ *)
\* the nodes that are on the chain of some head
HLinked(m) == UNION {Range(hlist_for_each(m, h)) : h \in HHeads}

HDetached(m, n) == n \in HNodes \ HLinked(m) /\ ~hlist_fake(m, n)

\* hash-list operation o takes the memory to m2; the memory before it and
\* the operation are recorded
HStep(o, m2) ==
    /\ phase \in {"free", "hbuild"}
    /\ hmem' = m2
    /\ pre' = hmem
    /\ hist' = <<o>>
    /\ UNCHANGED <<mem, stale, phase, iter, careful, zlog>>

DoInitHlistHead ==
    \E ptr \in HHeads :
        /\ hlist_empty(hmem, ptr)
        /\ HStep(Op("INIT_HLIST_HEAD", ptr, NULL, NULL), INIT_HLIST_HEAD(hmem, ptr))

DoInitHlistNode ==
    \E h \in HNodes :
        /\ HDetached(hmem, h)
        /\ HStep(Op("INIT_HLIST_NODE", h, NULL, NULL), INIT_HLIST_NODE(hmem, h))

DoHlistAddHead ==
    \E n \in HNodes, h \in HHeads :
        /\ HDetached(hmem, n)
        /\ HStep(Op("hlist_add_head", n, h, NULL), hlist_add_head(hmem, n, h))

DoHlistAddBefore ==
    \E n \in HNodes, next \in HLinked(hmem) :
        /\ HDetached(hmem, n)
        /\ HStep(Op("hlist_add_before", n, next, NULL), hlist_add_before(hmem, n, next))

DoHlistAddBehind ==
    \E n \in HNodes, prev \in HLinked(hmem) :
        /\ HDetached(hmem, n)
        /\ HStep(Op("hlist_add_behind", n, prev, NULL), hlist_add_behind(hmem, n, prev))

\* hlist_del of a node on a chain or of a fake list
DoHlistDel ==
    \E n \in HNodes :
        /\ n \in HLinked(hmem) \/ hlist_fake(hmem, n)
        /\ HStep(Op("hlist_del", n, NULL, NULL), hlist_del(hmem, n))

\* hlist_del_init of a node on a chain, of a fake list or of an unhashed node
DoHlistDelInit ==
    \E n \in HNodes :
        /\ n \in HLinked(hmem) \/ hlist_fake(hmem, n) \/ hlist_unhashed(hmem, n)
        /\ HStep(Op("hlist_del_init", n, NULL, NULL), hlist_del_init(hmem, n))

\* hlist_add_fake of an initialised node
DoHlistAddFake ==
    \E n \in HNodes :
        /\ HDetached(hmem, n)
        /\ HRdNext(hmem, n) = NULL
        /\ HStep(Op("hlist_add_fake", n, NULL, NULL), hlist_add_fake(hmem, n))

DoHlistMoveList ==
    \E old \in HHeads, new \in HHeads :
        /\ old # new
        /\ hlist_empty(hmem, new)
        /\ HStep(Op("hlist_move_list", old, new, NULL), hlist_move_list(hmem, old, new))

NextH ==
    \/ DoInitHlistHead
    \/ DoInitHlistNode
    \/ DoHlistAddHead
    \/ DoHlistAddBefore
    \/ DoHlistAddBehind
    \/ DoHlistDel
    \/ DoHlistDelInit
    \/ DoHlistAddFake
    \/ DoHlistMoveList

SpecH == InitH /\ [][NextH]_vars

(* ---------------- a safe loop that deletes chain nodes ----------------- *)
\* chains are built first
InitHIter ==
    /\ mem = InitMem
    /\ stale = {}
    /\ phase = "hbuild"
    /\ pre = InitHMem
    /\ hist = <<>>
    /\ hmem = InitHMem
    /\ iter = NoIter
    /\ careful = NoCareful
    /\ zlog = NoLog

\* the for statement is entered: pos is initialised
HIterBegin ==
    \E head \in HHeads, entry \in BOOLEAN :
        /\ phase = "hbuild"
        /\ phase' = "hiter"
        /\ iter' = [NoIter EXCEPT
                       !.pc = "test", !.entry = entry, !.head = head,
                       !.cur = IF entry
                               THEN hlist_for_each_entry_safe_init(hmem, head, @, MemberOffset)
                               ELSE hlist_for_each_safe_init(hmem, head, @),
                       !.entries = hlist_for_each(hmem, head)]
        /\ UNCHANGED <<mem, stale, pre, hist, hmem, careful, zlog>>

\* the test of pos in the condition of the for statement
HIterCond ==
    IF iter.entry THEN hlist_for_each_entry_safe_cond(iter.cur)
                  ELSE hlist_for_each_safe_cond(iter.cur)

\* the condition holds and has saved pos->next in n; the body is given pos
\* and removes it with del
HIterBody(name, m2) ==
    /\ phase = "hiter" /\ iter.pc = "test" /\ HIterCond
    /\ hmem' = m2
    /\ hist' = <<Op(name, MemberOf(iter.cur.pos), NULL, NULL)>>
    /\ iter' = [iter EXCEPT !.pc = "step",
                             !.cur = IF iter.entry
                                     THEN hlist_for_each_entry_safe_save(hmem, @, MemberOffset)
                                     ELSE hlist_for_each_safe_save(hmem, @),
                             !.yielded = Given(@, MemberOf(iter.cur.pos)),
                             !.bad = @ \/ MemberOf(iter.cur.pos) \notin HNodes
                                       \/ MemberOf(iter.cur.pos) \in Range(iter.yielded)]
    /\ UNCHANGED <<mem, stale, phase, pre, careful, zlog>>

HIterBodyHlistDel == HIterBody("hlist_del", hlist_del(hmem, MemberOf(iter.cur.pos)))

HIterBodyHlistDelInit ==
    HIterBody("hlist_del_init", hlist_del_init(hmem, MemberOf(iter.cur.pos)))

\* the increment of the for statement: pos = n
HIterStep ==
    /\ phase = "hiter" /\ iter.pc = "step"
    /\ iter' = [iter EXCEPT !.pc = "test",
                             !.cur = IF iter.entry
                                     THEN hlist_for_each_entry_safe_step(hmem, @, MemberOffset)
                                     ELSE hlist_for_each_safe_step(hmem, @)]
    /\ UNCHANGED <<mem, stale, phase, pre, hist, hmem, careful, zlog>>

\* the condition fails: the loop is left
HIterEnd ==
    /\ phase = "hiter" /\ iter.pc = "test" /\ ~HIterCond
    /\ iter' = [iter EXCEPT !.pc = "done"]
    /\ UNCHANGED <<mem, stale, phase, pre, hist, hmem, careful, zlog>>

HIterRun == HIterBodyHlistDel \/ HIterBodyHlistDelInit \/ HIterStep \/ HIterEnd

NextHIter ==
    \/ DoHlistAddHead
    \/ DoHlistAddBefore
    \/ DoHlistAddBehind
    \/ DoHlistDel
    \/ DoHlistDelInit
    \/ HIterBegin
    \/ HIterBodyHlistDel
    \/ HIterBodyHlistDelInit
    \/ HIterStep
    \/ HIterEnd

\* a loop that was entered keeps running: it is sequential code
SpecHIter == InitHIter /\ [][NextHIter]_vars /\ WF_vars(HIterRun)

(* ------------- one call with arguments of every kind, repeated ---------- *)
\* lists are built, then one function is called (phase "probe") with
\* arguments that the callers of the free run never pass: a head as the
\* entry to replace, an entry of another list as the place to cut at, a
\* destination that was never initialised; list_del_init and list_swap can
\* then be called once more with the same arguments (phase "again"), and so
\* can hlist_del_init after chains were built
Probe(o, m2) ==
    /\ phase = "ibuild"
    /\ phase' = "probe"
    /\ pre' = mem
    /\ hist' = <<o>>
    /\ mem' = m2
    /\ UNCHANGED <<stale, hmem, iter, careful, zlog>>

ProbeListReplace ==
    \E old \in Positions(mem), new \in Nodes :
        /\ Detached(mem, new)
        /\ Probe(Op("list_replace", old, new, NULL), list_replace(mem, old, new))

ProbeListReplaceInit ==
    \E old \in Positions(mem), new \in Nodes :
        /\ Detached(mem, new)
        /\ Probe(Op("list_replace_init", old, new, NULL), list_replace_init(mem, old, new))

\* list is an empty head or a detached entry, whatever its fields hold
ProbeListCutPosition ==
    \E head \in ValidHeads(mem), entry \in Objs :
        \E list \in {l \in Objs \ {head} : Detached(mem, l) \/ (l \in Heads /\ list_empty(mem, l))} :
            Probe(Op("list_cut_position", list, head, entry),
                  list_cut_position(mem, list, head, entry))

ProbeListDelInit ==
    \E entry \in Linked(mem) :
        Probe(Op("list_del_init", entry, NULL, NULL), list_del_init(mem, entry))

ProbeListSwap ==
    \E entry1 \in Linked(mem), entry2 \in Linked(mem) :
        /\ entry1 # entry2
        /\ Probe(Op("list_swap", entry1, entry2, NULL), list_swap(mem, entry1, entry2))

\* list_del_init is called again on the entry it has just removed; the
\* memory before this second call is recorded
AgainListDelInit ==
    /\ phase = "probe"
    /\ last.op = "list_del_init"
    /\ phase' = "again"
    /\ hist' = Append(hist, last)
    /\ pre' = mem
    /\ mem' = list_del_init(mem, last.a)
    /\ UNCHANGED <<stale, hmem, iter, careful, zlog>>

\* list_swap is called again with the same arguments; the memory before the
\* first call stays recorded
AgainListSwap ==
    /\ phase = "probe"
    /\ last.op = "list_swap"
    /\ phase' = "again"
    /\ hist' = Append(hist, last)
    /\ mem' = list_swap(mem, last.a, last.b)
    /\ UNCHANGED <<stale, pre, hmem, iter, careful, zlog>>

\* hlist_del_init is called again on the node it has just removed from a
\* chain; the memory before this second call is recorded
AgainHlistDelInit ==
    /\ phase = "hbuild"
    /\ last.op = "hlist_del_init"
    /\ last.a \in HLinked(pre)
    /\ phase' = "again"
    /\ hist' = Append(hist, last)
    /\ pre' = hmem
    /\ hmem' = hlist_del_init(hmem, last.a)
    /\ UNCHANGED <<mem, stale, iter, careful, zlog>>

\* either the list functions or the hash-list functions are probed
InitProbe == InitIter \/ InitHIter

NextProbe ==
    \/ DoListAdd
    \/ DoListAddTail
    \/ DoListDel
    \/ DoListDelInit
    \/ ProbeListReplace
    \/ ProbeListReplaceInit
    \/ ProbeListCutPosition
    \/ ProbeListDelInit
    \/ ProbeListSwap
    \/ AgainListDelInit
    \/ AgainListSwap
    \/ DoInitHlistNode
    \/ DoHlistAddHead
    \/ DoHlistAddBefore
    \/ DoHlistAddBehind
    \/ DoHlistDel
    \/ DoHlistDelInit
    \/ DoHlistAddFake
    \/ AgainHlistDelInit

SpecProbe == InitProbe /\ [][NextProbe]_vars

(* --------------- a forward reader against an insertion ------------------ *)
\* lists or chains are built; then one process calls an insertion function
\* and another one walks a list forwards (list_for_each, hlist_for_each)
\* while the stores of the insertion reach memory.  The first three
\* assignments of __list_add are plain and the fields are read by the other
\* process, so the four stores reach memory in any order; the stores of the
\* hash-list functions are all WRITE_ONCE and keep their order
InitReader == InitCareful \/ InitHIter

\* the reader has not started
ReaderAt(head, entries) ==
    [NoIter EXCEPT !.pc = "first", !.head = head, !.entries = entries]

\* list_add or list_add_tail is called: head->next or head->prev is loaded
AddCall ==
    \E name \in {"list_add", "list_add_tail"}, new \in Nodes,
       head \in Positions(mem), rh \in ValidHeads(mem) :
        /\ phase = "cbuild"
        /\ Detached(mem, new)
        /\ phase' = "adding"
        /\ pre' = mem
        /\ hist' = <<Op(name, new, head, NULL)>>
        /\ careful' = [NoCareful EXCEPT
                          !.e = new,
                          !.prev = IF name = "list_add" THEN head ELSE RdPrev(mem, head),
                          !.next = IF name = "list_add" THEN RdNext(mem, head) ELSE head]
        /\ iter' = ReaderAt(rh, list_for_each(mem, rh))
        /\ UNCHANGED <<mem, stale, hmem, zlog>>

\* one store of __list_add reaches memory
AddStore ==
    \E k \in Stores \ careful.stored :
        /\ phase = "adding"
        /\ mem' = __list_add_store(mem, k, careful.e, careful.prev, careful.next)
        /\ careful' = [careful EXCEPT !.stored = @ \cup {k},
                                      !.inorder = @ /\ careful.stored = 1..(k - 1)]
        /\ UNCHANGED <<stale, phase, pre, hist, hmem, iter, zlog>>

\* list_for_each: pos = head->next
ReaderFirst ==
    /\ phase = "adding" /\ iter.pc = "first"
    /\ iter' = [iter EXCEPT !.pc = "test", !.cur.pos = RdNext(mem, iter.head)]
    /\ UNCHANGED <<mem, stale, phase, pre, hist, hmem, careful, zlog>>

\* list_for_each: pos != head, the body, pos = pos->next.  A pos that is no
\* object cannot be followed, and a walk longer than there are nodes does
\* not end
ReaderStep ==
    /\ phase = "adding" /\ iter.pc = "test"
    /\ iter' = IF iter.cur.pos = iter.head THEN [iter EXCEPT !.pc = "done"]
               ELSE IF iter.cur.pos \notin Objs \/ Len(iter.yielded) >= NumNodes
               THEN [iter EXCEPT !.pc = "done", !.bad = TRUE]
               ELSE [iter EXCEPT !.yielded = Append(@, iter.cur.pos),
                                 !.cur.pos = RdNext(mem, iter.cur.pos)]
    /\ UNCHANGED <<mem, stale, phase, pre, hist, hmem, careful, zlog>>

\* hlist_add_head, hlist_add_before or hlist_add_behind is called
HAddCall ==
    \E o \in {Op("hlist_add_head", n, h, NULL) : n \in HNodes, h \in HHeads}
             \cup {Op("hlist_add_before", n, x, NULL) : n \in HNodes, x \in HLinked(hmem)}
             \cup {Op("hlist_add_behind", n, x, NULL) : n \in HNodes, x \in HLinked(hmem)},
       rh \in HHeads :
        /\ phase = "hbuild"
        /\ HDetached(hmem, o.a)
        /\ phase' = "hadding"
        /\ pre' = hmem
        /\ hist' = <<o>>
        /\ careful' = [NoCareful EXCEPT !.e = o.a]
        /\ iter' = ReaderAt(rh, hlist_for_each(hmem, rh))
        /\ UNCHANGED <<mem, stale, hmem, zlog>>

\* the memory after the first k statements of the call recorded
HAddUpto(k) ==
    CASE last.op = "hlist_add_head" -> hlist_add_head_upto(pre, last.a, last.b, k)
      [] last.op = "hlist_add_before" -> hlist_add_before_upto(pre, last.a, last.b, k)
      [] last.op = "hlist_add_behind" -> hlist_add_behind_upto(pre, last.a, last.b, k)

\* the next statement of the hash-list insertion is executed
HAddStore ==
    /\ phase = "hadding"
    /\ Cardinality(careful.stored) < 4
    /\ hmem' = HAddUpto(Cardinality(careful.stored) + 1)
    /\ careful' = [careful EXCEPT !.stored = @ \cup {Cardinality(@) + 1}]
    /\ UNCHANGED <<mem, stale, phase, pre, hist, iter, zlog>>

\* hlist_for_each: pos = head->first
HReaderFirst ==
    /\ phase = "hadding" /\ iter.pc = "first"
    /\ iter' = [iter EXCEPT !.pc = "test", !.cur.pos = HRdFirst(hmem, iter.head)]
    /\ UNCHANGED <<mem, stale, phase, pre, hist, hmem, careful, zlog>>

\* hlist_for_each: pos, the body, pos = pos->next
HReaderStep ==
    /\ phase = "hadding" /\ iter.pc = "test"
    /\ iter' = IF iter.cur.pos = NULL THEN [iter EXCEPT !.pc = "done"]
               ELSE IF iter.cur.pos \notin HNodes \/ Len(iter.yielded) >= NumNodes
               THEN [iter EXCEPT !.pc = "done", !.bad = TRUE]
               ELSE [iter EXCEPT !.yielded = Append(@, iter.cur.pos),
                                 !.cur.pos = HRdNext(hmem, iter.cur.pos)]
    /\ UNCHANGED <<mem, stale, phase, pre, hist, hmem, careful, zlog>>

NextReader ==
    \/ DoListAdd
    \/ DoListAddTail
    \/ DoListDel
    \/ DoListDelInit
    \/ AddCall
    \/ AddStore
    \/ ReaderFirst
    \/ ReaderStep
    \/ DoInitHlistNode
    \/ DoHlistAddHead
    \/ DoHlistAddBefore
    \/ DoHlistAddBehind
    \/ DoHlistDel
    \/ DoHlistDelInit
    \/ HAddCall
    \/ HAddStore
    \/ HReaderFirst
    \/ HReaderStep

SpecReader == InitReader /\ [][NextReader]_vars

(* -------------------------- zorolog_duplicate -------------------------- *)
\* x & 1 and x & 2 for an int x in two's complement
BitAnd1(x) == x % 2

BitAnd2(x) == ((x \div 2) % 2) * 2

\* the descriptors that are free in table t, and the lowest of them
FreeFds(t) == {fd \in 0..MaxFd : t[fd] = "closed"}

LowestFree(t) == CHOOSE fd \in FreeFds(t) : \A g \in FreeFds(t) : fd <= g

\* close(fd) and __zorolog_close(fd)
sys_close(t, fd) == IF fd \in 0..MaxFd THEN [t EXCEPT ![fd] = "closed"] ELSE t

__zorolog_close(t, fd) == IF fd # -1 THEN sys_close(t, fd) ELSE t

\* the two ends of the pipe of standard stream i
PipeEnd(i, end) ==
    CASE i = 0 /\ end = 0 -> "pipe0r" [] i = 0 /\ end = 1 -> "pipe0w"
      [] i = 1 /\ end = 0 -> "pipe1r" [] i = 1 /\ end = 1 -> "pipe1w"

InitLog ==
    /\ mem = InitMem
    /\ stale = {}
    /\ phase = "log"
    /\ pre = InitMem
    /\ hist = <<>>
    /\ hmem = InitHMem
    /\ iter = NoIter
    /\ careful = NoCareful
    /\ zlog = NoLog

\* what every step of zorolog_duplicate leaves alone
ZlFrame == UNCHANGED <<mem, stale, phase, pre, hist, hmem, iter, careful>>

\* zorolog_duplicate returns r after error e
ZlReturn(r, e) == zlog' = [zlog EXCEPT !.pc = "returned", !.ret = r, !.err = e]

\* zorolog_duplicate(logfile, stds, flags) is called: it checks its
\* arguments and calls __zorolog_duplicate, which initialises lc
ZlCall ==
    \E logfile \in {NULL, PATH_LOGFILE}, stds \in 0..MaxStds,
       flags \in 0..MaxFlags :
        /\ phase = "log" /\ zlog.pc = "idle"
        /\ IF logfile = NULL THEN zlog' = [zlog EXCEPT !.pc = "returned", !.ret = -EINVAL,
                                              !.err = "args", !.logfile = logfile,
                                              !.stds = stds, !.flags = flags]
           ELSE IF stds = 0 \/ stds > ZOROLOG_DUP_STDOUT + ZOROLOG_DUP_STDERR
           THEN zlog' = [zlog EXCEPT !.pc = "returned", !.ret = -EINVAL,
                                    !.err = "args", !.logfile = logfile,
                                    !.stds = stds, !.flags = flags]
           ELSE IF flags > ZOROLOG_APPEND
           THEN zlog' = [zlog EXCEPT !.pc = "returned", !.ret = -EINVAL,
                                    !.err = "args", !.logfile = logfile,
                                    !.stds = stds, !.flags = flags]
           ELSE zlog' = [zlog EXCEPT !.pc = "open", !.logfile = logfile,
                                    !.stds = stds, !.flags = flags,
                                    !.lc.stdsdup = <<BitAnd1(stds), BitAnd2(stds)>>,
                                    !.lc.append = BitAnd1(flags) # 0]
        /\ ZlFrame

\* lc.fd_logfile = open(logfile, log_flags, S_IRWXU)
ZlOpen ==
    \E ok \in BOOLEAN :
        /\ phase = "log" /\ zlog.pc = "open"
        /\ IF ok /\ FreeFds(zlog.fds) # {}
           THEN LET fd == LowestFree(zlog.fds)
                IN  zlog' = [zlog EXCEPT !.pc = "loop", !.i = 0, !.lc.fd_logfile = fd,
                                         !.fds[fd] = "logfile"]
           ELSE ZlReturn(-1, "open")
        /\ ZlFrame

\* the head of the for statement and the test of lc.stdsdup[i]
ZlLoop ==
    /\ phase = "log" /\ zlog.pc = "loop"
    /\ zlog' = IF zlog.i >= MAX_STANDARDS THEN [zlog EXCEPT !.pc = "close"]
               ELSE IF zlog.lc.stdsdup[zlog.i + 1] # 0 THEN [zlog EXCEPT !.pc = "pipe"]
               ELSE [zlog EXCEPT !.i = @ + 1]
    /\ ZlFrame

\* pipe(lc.pipes[i])
ZlPipe ==
    \E ok \in BOOLEAN :
        /\ phase = "log" /\ zlog.pc = "pipe"
        /\ IF ok /\ Cardinality(FreeFds(zlog.fds)) >= 2
           THEN LET r  == LowestFree(zlog.fds)
                    t1 == [zlog.fds EXCEPT ![r] = PipeEnd(zlog.i, 0)]
                    w  == LowestFree(t1)
                IN  zlog' = [zlog EXCEPT !.pc = "dup", !.lc.pipes[zlog.i + 1] = <<r, w>>,
                                         !.fds = [t1 EXCEPT ![w] = PipeEnd(zlog.i, 1)]]
           ELSE ZlReturn(-1, "pipe")
        /\ ZlFrame

\* lc.custom_stds[i] = dup(i + 1)
ZlDup ==
    \E ok \in BOOLEAN :
        /\ phase = "log" /\ zlog.pc = "dup"
        /\ IF ok /\ FreeFds(zlog.fds) # {}
           THEN LET fd == LowestFree(zlog.fds)
                IN  zlog' = [zlog EXCEPT !.pc = "dup2", !.lc.custom_stds[zlog.i + 1] = fd,
                                         !.fds[fd] = zlog.fds[zlog.i + 1]]
           ELSE ZlReturn(-1, "dup")
        /\ ZlFrame

\* dup2(lc.pipes[i][1], i + 1)
ZlDup2 ==
    \E ok \in BOOLEAN :
        /\ phase = "log" /\ zlog.pc = "dup2"
        /\ IF ok
           THEN zlog' = [zlog EXCEPT !.pc = "loop", !.i = @ + 1,
                                    !.fds[zlog.i + 1] = zlog.fds[zlog.lc.pipes[zlog.i + 1][2]]]
           ELSE ZlReturn(-1, "dup2")
        /\ ZlFrame

\* the write ends of both pipes are closed
ZlCloseWrite ==
    /\ phase = "log" /\ zlog.pc = "close"
    /\ zlog' = [zlog EXCEPT !.pc = "fork",
                   !.fds = __zorolog_close(__zorolog_close(@, zlog.lc.pipes[1][2]),
                                           zlog.lc.pipes[2][2])]
    /\ ZlFrame

\* fork(): on failure -1 is returned; otherwise the child runs
\* process_logger and the parent closes its descriptors and returns 0
ZlFork ==
    \E ok \in BOOLEAN :
        /\ phase = "log" /\ zlog.pc = "fork"
        /\ IF ok
           THEN LET t0 == sys_close(zlog.fds, zlog.lc.fd_logfile)
                    t1 == __zorolog_close(t0, zlog.lc.pipes[1][1])
                    t2 == __zorolog_close(t1, zlog.lc.custom_stds[1])
                    t3 == __zorolog_close(t2, zlog.lc.pipes[2][1])
                    t4 == __zorolog_close(t3, zlog.lc.custom_stds[2])
                IN  zlog' = [zlog EXCEPT !.pc = "returned", !.ret = 0, !.child = TRUE,
                                         !.fds = t4, !.cfds = zlog.fds, !.lpc = "init"]
           ELSE ZlReturn(-1, "fork")
        /\ ZlFrame

(* ---------------------------- process_logger --------------------------- *)
\* pipe i has an open write end, an open read end
HasWriter(z, i) ==
    \E fd \in 0..MaxFd : z.fds[fd] = PipeEnd(i, 1) \/ z.cfds[fd] = PipeEnd(i, 1)

HasReader(z, i) ==
    \E fd \in 0..MaxFd : z.fds[fd] = PipeEnd(i, 0) \/ z.cfds[fd] = PipeEnd(i, 0)

\* what poll reports for descriptor fd of the logger: nothing for a negative
\* descriptor, POLLIN when the pipe holds data, POLLHUP when its write end is
\* closed everywhere
Revents(z, i) ==
    IF z.pollfd[i + 1] = -1 THEN {}
    ELSE (IF z.pipe[i + 1] # <<>> THEN {"POLLIN"} ELSE {})
         \cup (IF ~HasWriter(z, i) THEN {"POLLHUP"} ELSE {})

\* the bytes number from .. from + n - 1 that the program writes to stream i:
\* none of them is 0, and the two streams use different values
Bytes(i, from, n) == [k \in 1..n |-> i * 128 + ((from + k - 2) % 127) + 1]

\* a byte that is none of the program's
Garbage == 128

\* the data of one write of the program to stream i after from - 1 bytes
Payloads(i, from) ==
    { Bytes(i, from, 1),
      Bytes(i, from, 1) \o <<0>> \o Bytes(i, from + 1, 1),
      Bytes(i, from, MAX_BUFFER_SIZE + 1) }

\* the values strlen(buffer) can have after memset(buffer, 0, MAX_BUFFER_SIZE)
\* and a read of Len(b) bytes: up to the first 0 byte; a buffer filled with
\* MAX_BUFFER_SIZE bytes other than 0 has no terminator and strlen reads
\* past its end
Strlen(b) ==
    IF \E k \in 1..Len(b) : b[k] = 0
    THEN {(CHOOSE k \in 1..Len(b) : b[k] = 0 /\ \A j \in 1..(k - 1) : b[j] # 0) - 1}
    ELSE IF Len(b) < MAX_BUFFER_SIZE THEN {Len(b)}
    ELSE {MAX_BUFFER_SIZE + g : g \in 0..MaxOverread}

\* the n bytes starting at buffer
FromBuffer(b, n) ==
    [k \in 1..n |-> IF k <= Len(b) THEN b[k] ELSE Garbage]

\* what descriptor fd of the logger refers to
Target(z, fd) == IF fd \in 0..MaxFd THEN z.cfds[fd] ELSE "closed"

\* the logger process: the first for statement of process_logger
LgInit ==
    /\ phase = "log" /\ zlog.lpc = "init"
    /\ LET c1 == IF zlog.lc.stdsdup[1] # 0 THEN sys_close(zlog.cfds, 1) ELSE zlog.cfds
           c2 == IF zlog.lc.stdsdup[2] # 0 THEN sys_close(c1, 2) ELSE c1
       IN  zlog' = [zlog EXCEPT !.lpc = "poll", !.cfds = c2,
                                !.pollfd = <<zlog.lc.pipes[1][1], zlog.lc.pipes[2][1]>>]
    /\ ZlFrame

\* ret = poll(fds, MAX_STANDARDS, -1) waits for an event and succeeds
LgPoll ==
    /\ phase = "log" /\ zlog.lpc = "poll"
    /\ \E i \in 0..(MAX_STANDARDS - 1) : Revents(zlog, i) # {}
    /\ zlog' = [zlog EXCEPT !.lpc = "read", !.li = 0,
                           !.revents = <<Revents(zlog, 0), Revents(zlog, 1)>>,
                           !.lret = Cardinality({i \in 0..(MAX_STANDARDS - 1) :
                                                   Revents(zlog, i) # {}})]
    /\ ZlFrame

\* the second for statement up to the read
LgRead ==
    /\ phase = "log" /\ zlog.lpc = "read"
    /\ IF zlog.li >= MAX_STANDARDS THEN zlog' = [zlog EXCEPT !.lpc = "hup", !.li = 0]
       ELSE IF "POLLIN" \notin zlog.revents[zlog.li + 1]
       THEN zlog' = [zlog EXCEPT !.li = @ + 1]
       ELSE LET p == zlog.pipe[zlog.li + 1]
                n == IF Len(p) < MAX_BUFFER_SIZE THEN Len(p) ELSE MAX_BUFFER_SIZE
            IN  IF n <= 0
                THEN zlog' = [zlog EXCEPT !.lpc = "exit", !.lret = 0, !.buffer = <<>>]
                ELSE zlog' = [zlog EXCEPT !.lpc = "wstd", !.lret = n,
                                         !.buffer = SubSeq(p, 1, n),
                                         !.pipe[zlog.li + 1] = SubSeq(p, n + 1, Len(p))]
    /\ ZlFrame

\* ret = write(lc.custom_stds[i], buffer, strlen(buffer))
LgWriteStd ==
    \E n \in Strlen(zlog.buffer) :
        /\ phase = "log" /\ zlog.lpc = "wstd"
        /\ LET t == Target(zlog, zlog.lc.custom_stds[zlog.li + 1])
           IN  IF t \notin {"stdout", "stderr"}
               THEN zlog' = [zlog EXCEPT !.lpc = "exit", !.lret = -1]
               ELSE IF n = 0 THEN zlog' = [zlog EXCEPT !.lpc = "exit", !.lret = 0]
               ELSE zlog' = [zlog EXCEPT !.lpc = "wlog", !.lret = n,
                                        !.out[t] = @ \o FromBuffer(zlog.buffer, n)]
        /\ ZlFrame

\* ret = write(lc.fd_logfile, buffer, strlen(buffer))
LgWriteLog ==
    \E n \in Strlen(zlog.buffer) :
        /\ phase = "log" /\ zlog.lpc = "wlog"
        /\ LET t == Target(zlog, zlog.lc.fd_logfile)
           IN  IF t # "logfile"
               THEN zlog' = [zlog EXCEPT !.lpc = "exit", !.lret = -1]
               ELSE IF n = 0 THEN zlog' = [zlog EXCEPT !.lpc = "exit", !.lret = 0]
               ELSE zlog' = [zlog EXCEPT !.lpc = "read", !.lret = n, !.li = @ + 1,
                                        !.log = @ \o FromBuffer(zlog.buffer, n)]
        /\ ZlFrame

\* the third for statement: the logger leaves at the first POLLHUP
LgHup ==
    /\ phase = "log" /\ zlog.lpc = "hup"
    /\ zlog' = IF \E i \in 1..MAX_STANDARDS : "POLLHUP" \in zlog.revents[i]
               THEN [zlog EXCEPT !.lpc = "exit", !.lret = 0]
               ELSE [zlog EXCEPT !.lpc = "poll"]
    /\ ZlFrame

\* the descriptors of a terminated process
NoFds == [fd \in 0..MaxFd |-> "closed"]

\* child_exit: the logger closes its descriptors, returns ret, and exit
\* closes whatever descriptor is left
LgExit ==
    /\ phase = "log" /\ zlog.lpc = "exit"
    /\ zlog' = [zlog EXCEPT !.lpc = "exited", !.cfds = NoFds]
    /\ ZlFrame

\* the program, after zorolog_duplicate returned 0, writes to its standard
\* output or standard error: into the pipe when the stream is duplicated
\* (the program is ended by SIGPIPE when the pipe has no reader), to the
\* stream itself otherwise
PWrite ==
    \E i \in 0..(MAX_STANDARDS - 1) :
        \E d \in Payloads(i, Len(zlog.written[i + 1]) + 1) :
            /\ phase = "log" /\ zlog.pc = "returned" /\ zlog.ret = 0
            /\ ~zlog.pexit /\ zlog.nw < MaxWrites
            /\ zlog.fds[i + 1] # "closed"
            /\ LET t == zlog.fds[i + 1]
               IN  IF t \in {"stdout", "stderr"}
                   THEN zlog' = [zlog EXCEPT !.nw = @ + 1, !.out[t] = @ \o d]
                   ELSE IF ~HasReader(zlog, i)
                   THEN zlog' = [zlog EXCEPT !.nw = @ + 1, !.pexit = TRUE, !.fds = NoFds]
                   ELSE zlog' = [zlog EXCEPT !.nw = @ + 1, !.pipe[i + 1] = @ \o d,
                                            !.written[i + 1] = @ \o d]
            /\ ZlFrame

\* the program closes its standard output or its standard error
PClose ==
    \E i \in 0..(MAX_STANDARDS - 1) :
        /\ phase = "log" /\ zlog.pc = "returned" /\ zlog.ret = 0
        /\ ~zlog.pexit /\ zlog.fds[i + 1] # "closed"
        /\ zlog' = [zlog EXCEPT !.fds = sys_close(@, i + 1)]
        /\ ZlFrame

\* the program terminates
PExit ==
    /\ phase = "log" /\ zlog.pc = "returned" /\ zlog.ret = 0
    /\ ~zlog.pexit
    /\ zlog' = [zlog EXCEPT !.pexit = TRUE, !.fds = NoFds]
    /\ ZlFrame

NextLog ==
    \/ ZlCall
    \/ ZlOpen
    \/ ZlLoop
    \/ ZlPipe
    \/ ZlDup
    \/ ZlDup2
    \/ ZlCloseWrite
    \/ ZlFork
    \/ LgInit
    \/ LgPoll
    \/ LgRead
    \/ LgWriteStd
    \/ LgWriteLog
    \/ LgHup
    \/ LgExit
    \/ PWrite
    \/ PClose
    \/ PExit

SpecLog == InitLog /\ [][NextLog]_vars

(* ------------------------------- claims -------------------------------- *)
\* the objects reached from p by following next
RECURSIVE ReachFrom(_, _, _)
ReachFrom(m, p, seen) ==
    IF p \notin Objs \/ p \in seen THEN seen
    ELSE ReachFrom(m, m.next[p], seen \cup {p})

Reach(m, head) == ReachFrom(m, head, {})

\* n.next.prev == n and n.prev.next == n
Reciprocal(m, n) ==
    /\ RdNext(m, n) \in Objs /\ RdPrev(m, RdNext(m, n)) = n
    /\ RdPrev(m, n) \in Objs /\ RdNext(m, RdPrev(m, n)) = n

\* C1 as claimed: after any sequence of list operations whose preconditions
\* are met, every head h and every node n reachable from h by following next
\* satisfies n.next.prev == n and n.prev.next == n.
C1_AllHeadsReciprocal ==
    \A h \in Heads : \A n \in Reach(mem, h) : Reciprocal(mem, n)

\* C1 as amended: the same for every head other than the source head of a
\* list_splice or list_splice_tail call with a non-empty source that was not
\* initialised again since: those two functions leave the source head's
\* fields pointing at the entries that now belong to the destination.
C1_LinksReciprocal ==
    /\ ~mem.ub
    /\ \A h \in Heads \ stale : \A n \in Reach(mem, h) : Reciprocal(mem, n)

\* C1 witness: a non-init splice has moved the entries of a head that was
\* not initialised since into a list that now has three entries
C1_Witness ==
    /\ stale # {}
    /\ \E h \in Heads \ stale : Len(list_for_each(mem, h)) >= 3

\* C2: after any sequence of hash-list operations whose preconditions are
\* met, every node n on the chain of a head satisfies *(n.pprev) == n, and
\* if n.next is not NULL then n.next.pprev is the address of n.next.
C2_PprevNamesSlot ==
    /\ ~hmem.ub
    /\ \A h \in HHeads : \A n \in Range(hlist_for_each(hmem, h)) :
          /\ HRdSlot(hmem, HRdPprev(hmem, n)) = n
          /\ HRdNext(hmem, n) # NULL =>
                /\ HRdNext(hmem, n) \in HNodes
                /\ HRdPprev(hmem, HRdNext(hmem, n)) = n

\* C2 witness: a node was unlinked from the middle of a chain of three, so
\* its successor's pprev was redirected to the predecessor's next
C2_Witness ==
    /\ last.op \in {"hlist_del", "hlist_del_init"}
    /\ \E h \in HHeads : Len(hlist_for_each(hmem, h)) >= 2
    /\ \E n \in HLinked(hmem) : HRdPprev(hmem, n) \in HNodes

\* the fields of object o are the same in m1 and m2
SameFields(m1, m2, o) == m1.next[o] = m2.next[o] /\ m1.prev[o] = m2.prev[o]

IndexOf(s, x) == CHOOSE i \in 1..Len(s) : s[i] = x

\* C3: for every well-formed list h (the empty one included) and detached
\* node n, list_add(n, h) or list_add_tail(n, h) followed by list_del(n) or
\* list_del_init(n) leaves h and every node of h with exactly the next/prev
\* values they had before the insert.
C3_InsertRemoveRestores ==
    phase = "undo" =>
        /\ ~mem.ub
        /\ \A o \in Objs \ {last.a} : SameFields(mem, pre, o)
        /\ \A h \in Heads : list_for_each(mem, h) = list_for_each(pre, h)

\* C3 witness: an entry added at the tail of a non-empty list was deleted
C3_Witness ==
    /\ phase = "undo"
    /\ hist[1].op = "list_add_tail" /\ hist[2].op = "list_del"
    /\ hist[1].b \in Heads /\ Len(list_for_each(mem, hist[1].b)) >= 2

SpliceOps == {"list_splice", "list_splice_tail", "list_splice_init", "list_splice_tail_init"}

\* the observed operation is a splice of list last.a into last.b
Spliced(ops) == phase = "op" /\ last.op \in ops

\* C4: list_splice(A, B) with A non-empty puts A's entries, in A's order,
\* ahead of B's former entries, list_splice_tail(A, B) puts them after B's
\* former entries, and in both cases the backward traversal of B is the
\* reverse of the forward one.
C4_SpliceOrder ==
    Spliced({"list_splice", "list_splice_tail"}) /\ ~list_empty(pre, last.a) =>
        LET A == list_for_each(pre, last.a)
            B == list_for_each(pre, last.b)
            R == list_for_each(mem, last.b)
        IN  /\ ~mem.ub
            /\ last.op = "list_splice" => R = A \o B
            /\ last.op = "list_splice_tail" => R = B \o A
            /\ list_for_each_prev(mem, last.b) = Reverse(R)

\* C4 witness: a list of two entries was spliced in front of a non-empty list
C4_Witness ==
    /\ Spliced({"list_splice"})
    /\ Len(list_for_each(pre, last.a)) = 2
    /\ Len(list_for_each(pre, last.b)) >= 1

\* C5: after splicing a non-empty source list A, A is an empty list
\* (A.next == A and A.prev == A) iff an _init variant was used; list_splice
\* and list_splice_tail leave the fields of head A as they were.
C5_SourceReinitIffInit ==
    Spliced(SpliceOps) /\ ~list_empty(pre, last.a) =>
        /\ (mem.next[last.a] = last.a /\ mem.prev[last.a] = last.a)
              <=> last.op \in {"list_splice_init", "list_splice_tail_init"}
        /\ last.op \in {"list_splice", "list_splice_tail"} =>
              SameFields(mem, pre, last.a)

\* C5 witness: list_splice_init has emptied a source list of two entries
C5_Witness ==
    /\ Spliced({"list_splice_init"})
    /\ Len(list_for_each(pre, last.a)) = 2
    /\ list_empty(mem, last.a)

\* C6: the four splice functions called with an empty source list change no
\* field of the destination head, of any destination node or of the source
\* head.
C6_EmptySourceNoOp ==
    Spliced(SpliceOps) /\ list_empty(pre, last.a) => mem = pre

\* C6 witness: list_splice_tail of an empty list into a list of two entries
C6_Witness ==
    /\ Spliced({"list_splice_tail"})
    /\ list_empty(pre, last.a)
    /\ Len(list_for_each(mem, last.b)) >= 2

\* the observed operation is a cut of last.b at last.c into last.a
Cut(name) == phase = "op" /\ last.op = name

\* C7: list_cut_position(list, head, entry), list being empty and entry an
\* entry of head's list, moves the entries of head up to and including entry
\* into list in the same order and leaves the others in head in the same
\* order; both results are well-formed circular lists.
C7_CutPosition ==
    Cut("list_cut_position") /\ list_empty(pre, last.a)
        /\ Member(pre, last.c, last.b) =>
        LET s == list_for_each(pre, last.b)
            k == IndexOf(s, last.c)
        IN  /\ ~mem.ub
            /\ list_for_each(mem, last.a) = SubSeq(s, 1, k)
            /\ list_for_each(mem, last.b) = SubSeq(s, k + 1, Len(s))
            /\ WellFormed(mem, last.a) /\ WellFormed(mem, last.b)

\* C7 witness: head = [x1, x2, x3] was cut at x2
C7_Witness ==
    /\ Cut("list_cut_position")
    /\ Len(list_for_each(pre, last.b)) = 3
    /\ Len(list_for_each(mem, last.a)) = 2
    /\ Len(list_for_each(mem, last.b)) = 1

\* C8: list_cut_before(list, head, entry), entry being an entry of head's
\* list or head itself, moves the entries of head before entry into list in
\* the same order; if entry is the first entry list becomes empty and head is
\* unchanged, and if entry == head every entry moves and head becomes empty.
C8_CutBefore ==
    Cut("list_cut_before") =>
        LET s == list_for_each(pre, last.b)
            k == IF last.c = last.b THEN Len(s) + 1 ELSE IndexOf(s, last.c)
        IN  /\ ~mem.ub
            /\ list_for_each(mem, last.a) = SubSeq(s, 1, k - 1)
            /\ list_for_each(mem, last.b) = SubSeq(s, k, Len(s))
            /\ k = 1 => /\ list_empty(mem, last.a)
                        /\ \A o \in Objs \ {last.a} : SameFields(mem, pre, o)
            /\ last.c = last.b => list_empty(mem, last.b)

\* C8 witness: head = [x1, x2, x3] was cut before head itself
C8_Witness ==
    /\ Cut("list_cut_before")
    /\ last.c = last.b
    /\ Len(list_for_each(mem, last.a)) = 3

\* C9: list_cut_position(list, head, entry) with entry == head moves nothing:
\* the entries and order of head's list are unchanged, and list, which was
\* empty before the call, holds no entries afterwards.
C9_CutAtHeadMovesNothing ==
    Cut("list_cut_position") /\ last.c = last.b /\ list_empty(pre, last.a) =>
        /\ ~mem.ub
        /\ list_for_each(mem, last.b) = list_for_each(pre, last.b)
        /\ \A o \in Objs \ {last.a} : SameFields(mem, pre, o)
        /\ list_for_each(mem, last.a) = <<>>

\* C9 witness: list_cut_position at the head of a list of two entries
C9_Witness ==
    /\ Cut("list_cut_position")
    /\ last.c = last.b
    /\ Len(list_for_each(mem, last.b)) = 2

\* the loop has given its body a prefix of the entries the list had, touched
\* no poisoned or removed entry, and at its end has given all of them and
\* left the list empty
IterSafe ==
    phase = "iter" =>
        /\ ~iter.bad /\ ~mem.ub
        /\ Len(iter.yielded) <= Len(iter.entries)
        /\ iter.yielded = SubSeq(iter.entries, 1, Len(iter.yielded))
        /\ iter.pc = "done" =>
              /\ iter.yielded = iter.entries
              /\ list_empty(mem, iter.head) /\ WellFormed(mem, iter.head)

\* C10: list_for_each_safe / list_for_each_entry_safe over a list of any
\* length whose body deletes the entry it is given (list_del or
\* list_del_init) terminates, gives the body every entry that was in the list
\* exactly once in list order, never dereferences a poisoned or removed
\* entry, and leaves the list empty.
C10_SafeLoopDeletesAll ==
    /\ []IterSafe
    /\ (phase = "iter") ~> (iter.pc = "done")

\* C10 witness: a loop over three entries has ended, the first entry was
\* removed with list_del
C10_Witness ==
    /\ iter.pc = "done"
    /\ Len(iter.yielded) = 3
    /\ mem.next[iter.yielded[1]] = LIST_POISON1

\* the observed hash-list operation is name
HDid(name) == last.op = name

\* C11: hlist_del(n) on a node of a chain of any length changes only n's own
\* fields, the slot that n.pprev pointed to (the head's first or the
\* predecessor's next) and, if n had a successor, that successor's pprev; no
\* field of any other node or of any other head changes.
C11_HlistDelFrame ==
    HDid("hlist_del") /\ last.a \in HLinked(pre) =>
        LET n  == last.a
            pp == pre.pprev[n]
            nx == pre.next[n]
        IN  /\ ~hmem.ub
            /\ \A h \in HHeads \ {pp} : hmem.first[h] = pre.first[h]
            /\ \A x \in HNodes \ {n} :
                  /\ x # pp => hmem.next[x] = pre.next[x]
                  /\ x # nx => hmem.pprev[x] = pre.pprev[x]
            /\ HRdSlot(hmem, pp) = nx
            /\ nx # NULL => hmem.pprev[nx] = pp

\* C11 witness: the middle node of a chain of three was removed
C11_Witness ==
    /\ HDid("hlist_del")
    /\ pre.pprev[last.a] \in HNodes
    /\ pre.next[last.a] \in HNodes
    /\ \E h \in HHeads : Len(hlist_for_each(pre, h)) = 3

\* the observed list operation is one of ops
Did(ops) == phase = "op" /\ last.op \in ops

\* the sequence s without x
Without(s, x) == SelectSeq(s, LAMBDA y : y # x)

\* C12: list_del(entry) relinks entry's former neighbours to each other and
\* leaves entry.next == LIST_POISON1 and entry.prev == LIST_POISON2, so
\* list_empty(entry) is false; list_del_init(entry) relinks the neighbours the
\* same way and leaves entry self-referencing, so list_empty(entry) is true;
\* in both cases entry is no longer reachable from any head.
C12_DelUnlinks ==
    Did({"list_del", "list_del_init"}) =>
        LET entry == last.a
            p == pre.prev[entry]
            n == pre.next[entry]
        IN  /\ ~mem.ub
            /\ mem.next[p] = n /\ mem.prev[n] = p
            /\ last.op = "list_del" =>
                  /\ mem.next[entry] = LIST_POISON1
                  /\ mem.prev[entry] = LIST_POISON2
                  /\ ~list_empty(mem, entry)
            /\ last.op = "list_del_init" =>
                  /\ mem.next[entry] = entry
                  /\ mem.prev[entry] = entry
                  /\ list_empty(mem, entry)
            /\ \A h \in Heads :
                  /\ entry \notin Reach(mem, h)
                  /\ list_for_each(mem, h) = Without(list_for_each(pre, h), entry)
                  /\ WellFormed(mem, h)

\* C12 witness: list_del has removed the middle entry of a list of three
C12_Witness ==
    /\ Did({"list_del"})
    /\ pre.prev[last.a] \in Nodes /\ pre.next[last.a] \in Nodes
    /\ mem.next[last.a] = LIST_POISON1

\* the heads whose list holds n
HeadsOf(m, n) == {h \in Heads : Member(m, n, h)}

\* C13: after list_move(n, head) (resp. list_move_tail(n, head)) n is the
\* first (resp. last) entry of head's list and is in no other list, the
\* relative order of all other entries of the source and destination lists is
\* unchanged, and n is reachable from exactly one head; this also holds when
\* source and destination are the same list.
C13_MoveRelocates ==
    Did({"list_move", "list_move_tail"}) =>
        LET n    == last.a
            head == last.b
            rest == Without(list_for_each(pre, head), n)
        IN  /\ ~mem.ub
            /\ last.op = "list_move" => list_for_each(mem, head) = <<n>> \o rest
            /\ last.op = "list_move_tail" => list_for_each(mem, head) = rest \o <<n>>
            /\ \A h \in Heads \ {head} :
                  list_for_each(mem, h) = Without(list_for_each(pre, h), n)
            /\ HeadsOf(mem, n) = {head}
            /\ {h \in Heads : n \in Reach(mem, h)} = {head}
            /\ \A h \in Heads : WellFormed(mem, h)

\* C13 witness: list_move has brought the last entry of a list of three to
\* the front of the same list
C13_Witness ==
    /\ Did({"list_move"})
    /\ Len(list_for_each(pre, last.b)) = 3
    /\ list_for_each(pre, last.b)[3] = last.a
    /\ list_for_each(mem, last.b)[1] = last.a

\* the sequence s with x put right after y, y being an element of s
InsertAfter(s, x, y) ==
    LET k == IndexOf(s, y)
    IN  SubSeq(s, 1, k) \o <<x>> \o SubSeq(s, k + 1, Len(s))

\* the sequence s with x put right before y, y being an element of s
InsertBefore(s, x, y) ==
    LET k == IndexOf(s, y)
    IN  SubSeq(s, 1, k - 1) \o <<x>> \o SubSeq(s, k, Len(s))

\* the entries that the recorded calls named op have added to head, in call order
RECURSIVE AddedTo(_, _, _)
AddedTo(h, head, op) ==
    IF h = <<>> THEN <<>>
    ELSE (IF h[1].op = op /\ h[1].b = head THEN <<h[1].a>> ELSE <<>>)
         \o AddedTo(Tail(h), head, op)

\* C14: list_add(new, ref) links new immediately after ref and
\* list_add_tail(new, ref) links new immediately before ref, keeping every
\* other entry in its order; consequently n successive list_add_tail calls on
\* an empty head iterate in insertion order (queue) and n successive list_add
\* calls iterate in reverse insertion order (stack).
C14_AddPlacesEntry ==
    phase = "fill" /\ hist # <<>> =>
        LET new == last.a
            ref == last.b
        IN  /\ ~mem.ub
            /\ last.op = "list_add" =>
                  /\ mem.next[ref] = new /\ mem.prev[new] = ref
                  /\ mem.next[new] = pre.next[ref] /\ mem.prev[pre.next[ref]] = new
            /\ last.op = "list_add_tail" =>
                  /\ mem.prev[ref] = new /\ mem.next[new] = ref
                  /\ mem.prev[new] = pre.prev[ref] /\ mem.next[pre.prev[ref]] = new
            /\ \A h \in Heads :
                  LET s == list_for_each(pre, h)
                      r == list_for_each(mem, h)
                  IN  /\ WellFormed(mem, h)
                      /\ ref # h /\ ~Member(pre, ref, h) => r = s
                      /\ ref = h /\ last.op = "list_add" => r = <<new>> \o s
                      /\ ref = h /\ last.op = "list_add_tail" => r = s \o <<new>>
                      /\ Member(pre, ref, h) /\ last.op = "list_add" =>
                            r = InsertAfter(s, new, ref)
                      /\ Member(pre, ref, h) /\ last.op = "list_add_tail" =>
                            r = InsertBefore(s, new, ref)
            /\ \A h \in Heads :
                  /\ (\A i \in 1..Len(hist) : hist[i].b = h => hist[i].op = "list_add_tail")
                     /\ (\A i \in 1..Len(hist) : hist[i].b \in Heads) =>
                        list_for_each(mem, h) = AddedTo(hist, h, "list_add_tail")
                  /\ (\A i \in 1..Len(hist) : hist[i].b = h => hist[i].op = "list_add")
                     /\ (\A i \in 1..Len(hist) : hist[i].b \in Heads) =>
                        list_for_each(mem, h) = Reverse(AddedTo(hist, h, "list_add"))

\* C14 witness: three list_add_tail calls on one head, which then iterates
\* in insertion order
C14_Witness ==
    /\ phase = "fill" /\ Len(hist) = 3
    /\ \A i \in 1..3 : hist[i].op = "list_add_tail" /\ hist[i].b = hist[1].b
    /\ hist[1].b \in Heads
    /\ list_for_each(mem, hist[1].b) = <<hist[1].a, hist[2].a, hist[3].a>>

\* C15: list_bulk_move_tail(head, first, last), with first..last a contiguous
\* run of entries of head's list (first may equal last), yields the list with
\* the run removed from its old position and placed, in the same internal
\* order, just before head (at the tail), the other entries keeping their
\* relative order; when the run already ends at the tail or is the whole list,
\* the list is left unchanged.
C15_BulkMoveTail ==
    Did({"list_bulk_move_tail"}) =>
        LET head == last.a
            s == list_for_each(pre, head)
            i == IndexOf(s, last.b)
            j == IndexOf(s, last.c)
        IN  /\ ~mem.ub
            /\ i <= j
            /\ list_for_each(mem, head) =
                  SubSeq(s, 1, i - 1) \o SubSeq(s, j + 1, Len(s)) \o SubSeq(s, i, j)
            /\ list_for_each_prev(mem, head) = Reverse(list_for_each(mem, head))
            /\ \A h \in Heads : WellFormed(mem, h)
            /\ \A h \in Heads \ {head} : list_for_each(mem, h) = list_for_each(pre, h)
            /\ j = Len(s) => mem = pre

\* C15 witness: the run of the first two entries of a list of three was moved
\* behind the third
C15_Witness ==
    /\ Did({"list_bulk_move_tail"})
    /\ Len(list_for_each(pre, last.a)) = 3
    /\ list_for_each(pre, last.a)[1] = last.b
    /\ list_for_each(pre, last.a)[2] = last.c
    /\ list_for_each(mem, last.a)[1] = list_for_each(pre, last.a)[3]

\* the sequence s with every a replaced by b and every b by a
Exchanged(s, a, b) ==
    [i \in 1..Len(s) |-> IF s[i] = a THEN b ELSE IF s[i] = b THEN a ELSE s[i]]

\* C16: list_swap(a, b) for distinct linked nodes a and b, in the same list
\* or in different lists, puts a at b's former position and b at a's former
\* position and leaves the position of every other entry unchanged; this
\* holds when b immediately follows a, when a immediately follows b, and when
\* a and b are the only two entries of a list.
C16_SwapExchanges ==
    Did({"list_swap"}) =>
        /\ ~mem.ub
        /\ \A h \in Heads :
              /\ list_for_each(mem, h) = Exchanged(list_for_each(pre, h), last.a, last.b)
              /\ list_for_each_prev(mem, h) = Reverse(list_for_each(mem, h))
              /\ WellFormed(mem, h)

\* C16 witness: the only two entries of a list were swapped, entry2 being
\* right after entry1
C16_Witness ==
    /\ Did({"list_swap"})
    /\ \E h \in Heads : /\ list_for_each(pre, h) = <<last.a, last.b>>
                        /\ list_for_each(mem, h) = <<last.b, last.a>>

\* C17: list_rotate_left(head) moves the first entry to the tail and keeps
\* the order of the other entries; on an empty list and on a one-entry list
\* it leaves every field unchanged and dereferences no invalid pointer.
C17_RotateLeft ==
    Did({"list_rotate_left"}) =>
        LET s == list_for_each(pre, last.a)
        IN  /\ ~mem.ub
            /\ Len(s) >= 1 => list_for_each(mem, last.a) = Tail(s) \o <<Head(s)>>
            /\ Len(s) <= 1 => mem = pre
            /\ \A h \in Heads : WellFormed(mem, h)
            /\ \A h \in Heads \ {last.a} : list_for_each(mem, h) = list_for_each(pre, h)

\* C17 witness: a list of three entries was rotated
C17_Witness ==
    /\ Did({"list_rotate_left"})
    /\ Len(list_for_each(pre, last.a)) = 3
    /\ list_for_each(mem, last.a)[3] = list_for_each(pre, last.a)[1]

\* list_empty and list_is_singular tell whether head has zero entries and
\* whether it has exactly one
CountsRight(m, head) ==
    /\ list_empty(m, head) <=> Len(list_for_each(m, head)) = 0
    /\ list_is_singular(m, head) <=> Len(list_for_each(m, head)) = 1

\* C18 as claimed: in every list state reachable by well-formed operations,
\* list_empty(head) is true iff head's list has zero entries and
\* list_is_singular(head) is true iff it has exactly one entry (false for 0
\* and for 2 or more).
C18_AllHeadsCountRight == \A h \in Heads : CountsRight(mem, h)

\* C18 as amended: the same for every head other than the source head of a
\* list_splice or list_splice_tail call with a non-empty source that was not
\* initialised again since: such a head still points at its former entries,
\* which are now entries of the destination.
C18_EmptyAndSingular ==
    \A h \in Heads \ stale : WellFormed(mem, h) /\ CountsRight(mem, h)

\* C18 witness: a non-init splice has emptied a head that was not initialised
\* since, and the destination, which then lost entries, has exactly one
C18_Witness ==
    /\ stale # {}
    /\ \E h \in Heads \ stale :
          /\ list_is_singular(mem, h) /\ Len(list_for_each(mem, h)) = 1
          /\ \E n \in Nodes : mem.next[n] = LIST_POISON1 /\ mem.prev[n] = LIST_POISON2

\* C19: after list_rotate_to_front(list, head), with list an entry of head's
\* list, list is the first entry of head's list and the cyclic order of the
\* entries is unchanged: the entries formerly before list now follow, in
\* their order, the former last entry.
C19_RotateToFront ==
    Did({"list_rotate_to_front"}) =>
        LET list == last.a
            head == last.b
            s == list_for_each(pre, head)
            k == IndexOf(s, list)
        IN  /\ ~mem.ub
            /\ mem.next[head] = list /\ list_is_first(mem, list, head)
            /\ list_for_each(mem, head) = SubSeq(s, k, Len(s)) \o SubSeq(s, 1, k - 1)
            /\ list_for_each_prev(mem, head) = Reverse(list_for_each(mem, head))
            /\ \A h \in Heads : WellFormed(mem, h)
            /\ \A h \in Heads \ {head} : list_for_each(mem, h) = list_for_each(pre, h)

\* C19 witness: a list of three entries was rotated to its last entry
C19_Witness ==
    /\ Did({"list_rotate_to_front"})
    /\ Len(list_for_each(pre, last.b)) = 3
    /\ list_for_each(pre, last.b)[3] = last.a
    /\ list_for_each(mem, last.b)[2] = list_for_each(pre, last.b)[1]

\* C20: when one process executes list_del_init_careful(e) on a linked entry
\* e, each field write being a separate step, concurrently with another
\* process executing list_empty_careful(e), each field read being a separate
\* step, list_empty_careful returns true only if every write of
\* list_del_init_careful to e has already been performed (e.next == e and
\* e.prev == e), i.e. it never reports empty while the entry is still being
\* modified.
C20_CarefulNeverEarly ==
    phase = "careful" /\ careful.rpc = "done" /\ careful.ret =>
        /\ {3, 4} \subseteq careful.stored
        /\ mem.next[careful.e] = careful.e
        /\ mem.prev[careful.e] = careful.e

\* C20 witness: list_empty_careful has returned true once both fields of e
\* were stored, while the stores that relink the neighbours of e were still
\* to reach memory
C20_Witness ==
    /\ phase = "careful" /\ careful.rpc = "done" /\ careful.ret
    /\ careful.stored = {3, 4}
    /\ mem.next[careful.prev] = careful.e

\* C21: in the lock-free pattern where one side only ever calls
\* list_del_init_careful on e and the other side only ever calls
\* list_empty_careful on e, whenever e.next == e and e.prev == e already hold
\* when list_empty_careful(e) performs its first read, it returns true, under
\* every interleaving of the individual field accesses.
C21_CarefulSeesEmpty ==
    phase = "careful" /\ careful.rpc = "done" /\ careful.settled => careful.ret

\* C21 witness: list_empty_careful began after every store of
\* list_del_init_careful and has returned true
C21_Witness ==
    /\ phase = "careful" /\ careful.rpc = "done" /\ careful.settled /\ careful.ret
    /\ careful.stored = Stores
    /\ careful.loaded = {"next", "prev"}

\* s has no element twice
NoDuplicates(s) == Cardinality(Range(s)) = Len(s)

\* the cursors of the loop were usable throughout, the body was given no
\* entry twice and only entries the list had, and at the end of the loop it
\* was given all of them
IterMoveSafe ==
    phase = "iter" =>
        /\ ~iter.bad /\ ~mem.ub
        /\ NoDuplicates(iter.yielded)
        /\ Range(iter.yielded) \subseteq Range(iter.entries)
        /\ iter.pc = "done" => Range(iter.yielded) = Range(iter.entries)

\* C22 as claimed: during safe iteration (list_for_each_safe /
\* list_for_each_entry_safe) the body may relocate the just-yielded node with
\* list_move or list_move_tail without invalidating the cursor: the iteration
\* terminates and yields every node that was in the list when the iteration
\* started exactly once.
C22_AnyRelocation ==
    /\ []IterMoveSafe
    /\ (phase = "iter") ~> (iter.pc = "done")

\* C22 as amended: the same when the body relocates the node with list_move
\* to any list or with list_move_tail to a list other than the one iterated:
\* an entry moved to the tail of the list iterated is ahead of the cursor
\* again.
C22_SafeLoopRelocates ==
    /\ [](~iter.tailed => IterMoveSafe)
    /\ (phase = "iter") ~> (iter.pc = "done" \/ iter.tailed)

\* C22 witness: a loop over three entries has ended whose body moved each
\* entry to the front of the list iterated
C22_Witness ==
    /\ phase = "iter" /\ iter.pc = "done" /\ ~iter.tailed
    /\ Len(iter.entries) = 3
    /\ list_for_each(mem, iter.head) = Reverse(iter.entries)

\* each element of s after the first is the next of the one before it
NextOrder(m, head, s) ==
    /\ s # <<>> => s[1] = m.next[head]
    /\ \A i \in 1..(Len(s) - 1) : s[i + 1] = m.next[s[i]]

\* what the two loops have given their bodies so far is free of the head and
\* of repetitions and follows next; the forward loop, once over, has given
\* every entry; the backward loop, once over, has given the same entries in
\* the reverse order; both give nothing on an empty list
WalkSafe ==
    phase = "walk" =>
        /\ ~iter.bad /\ ~mem.ub
        /\ iter.head \notin Range(iter.yielded) \cup Range(iter.back)
        /\ NoDuplicates(iter.yielded) /\ NoDuplicates(iter.back)
        /\ NextOrder(mem, iter.head, iter.yielded)
        /\ iter.pc \in {"bwd", "done"} =>
              /\ Range(iter.yielded) = Reach(mem, iter.head) \ {iter.head}
              /\ iter.yielded = iter.entries
        /\ iter.pc = "done" => iter.back = Reverse(iter.yielded)
        /\ list_empty(mem, iter.head) => iter.yielded = <<>> /\ iter.back = <<>>

\* C23: list_for_each over a well-formed list that is not mutated during the
\* traversal terminates and yields every entry exactly once in next order,
\* never yielding the head itself; list_for_each_prev yields the same entries
\* in exactly the reverse order; on an empty list both yield nothing.
C23_ForEachVisitsAll ==
    /\ []WalkSafe
    /\ (phase = "walk") ~> (iter.pc = "done")

\* C23 witness: both loops have run over a list of three entries
C23_Witness ==
    /\ phase = "walk" /\ iter.pc = "done"
    /\ Len(iter.yielded) = 3 /\ Len(iter.back) = 3
    /\ iter.back[1] = iter.yielded[3]

\* the head whose chain holds x
HHeadOf(m, x) == CHOOSE h \in HHeads : x \in Range(hlist_for_each(m, h))

\* C24: hlist_add_head(n, h) makes n the first node of h; hlist_add_before(n,
\* x) places n immediately before x (n becomes first when x was first);
\* hlist_add_behind(n, x) places n immediately after x (n becomes last when x
\* was last); in every case all other nodes keep their order and the pprev of
\* the node that now follows n is relinked to the address of n.next.
C24_HlistAddPlacesNode ==
    last.op \in {"hlist_add_head", "hlist_add_before", "hlist_add_behind"} =>
        LET n == last.a
            h == IF last.op = "hlist_add_head" THEN last.b ELSE HHeadOf(pre, last.b)
            s == hlist_for_each(pre, h)
            r == hlist_for_each(hmem, h)
        IN  /\ ~hmem.ub
            /\ last.op = "hlist_add_head" => r = <<n>> \o s /\ hmem.first[h] = n
            /\ last.op = "hlist_add_before" =>
                  /\ r = InsertBefore(s, n, last.b)
                  /\ hmem.next[n] = last.b
                  /\ s[1] = last.b => hmem.first[h] = n
            /\ last.op = "hlist_add_behind" =>
                  /\ r = InsertAfter(s, n, last.b)
                  /\ hmem.next[last.b] = n
                  /\ s[Len(s)] = last.b => r[Len(r)] = n /\ hmem.next[n] = NULL
            /\ \A g \in HHeads \ {h} : hlist_for_each(hmem, g) = hlist_for_each(pre, g)
            /\ hmem.next[n] # NULL => hmem.pprev[hmem.next[n]] = n
            /\ HRdSlot(hmem, hmem.pprev[n]) = n

\* C24 witness: a node was added behind the first node of a chain of two, so
\* the pprev of the second was relinked
C24_Witness ==
    /\ last.op = "hlist_add_behind"
    /\ \E h \in HHeads : /\ Len(hlist_for_each(hmem, h)) = 3
                         /\ hlist_for_each(hmem, h)[2] = last.a
    /\ hmem.pprev[hmem.next[last.a]] = last.a

\* C25: hlist_unhashed(n) is true iff n.pprev is NULL; after hlist_del(n) the
\* node is poisoned (next == LIST_POISON1, pprev == LIST_POISON2) and
\* hlist_unhashed(n) is false; after hlist_del_init(n) both next and pprev are
\* NULL and hlist_unhashed(n) is true.
C25_UnhashedAfterDel ==
    /\ ~hmem.ub
    /\ \A n \in HNodes : hlist_unhashed(hmem, n) <=> hmem.pprev[n] = NULL
    /\ HDid("hlist_del") =>
          /\ hmem.next[last.a] = LIST_POISON1
          /\ hmem.pprev[last.a] = LIST_POISON2
          /\ ~hlist_unhashed(hmem, last.a)
    /\ HDid("hlist_del_init") =>
          /\ hmem.next[last.a] = NULL
          /\ hmem.pprev[last.a] = NULL
          /\ hlist_unhashed(hmem, last.a)

\* C25 witness: hlist_del_init has removed the first node of a chain of two
C25_Witness ==
    /\ HDid("hlist_del_init")
    /\ pre.pprev[last.a] \in HHeads
    /\ pre.next[last.a] \in HNodes
    /\ hlist_unhashed(hmem, last.a)

\* every field of every head and of every node other than n is the same in
\* m1 and m2
HSameButNode(m1, m2, n) ==
    /\ m1.first = m2.first
    /\ \A x \in HNodes \ {n} : m1.next[x] = m2.next[x] /\ m1.pprev[x] = m2.pprev[x]

\* C26: after hlist_add_fake(n) on an initialised node, hlist_fake(n) is true
\* and hlist_unhashed(n) is false, and a subsequent hlist_del(n) or
\* hlist_del_init(n) completes by writing only n's own fields, modifying no
\* head and no other node.
C26_FakeNodeDelIsLocal ==
    /\ HDid("hlist_add_fake") =>
          /\ ~hmem.ub
          /\ hlist_fake(hmem, last.a) /\ ~hlist_unhashed(hmem, last.a)
          /\ HSameButNode(hmem, pre, last.a)
    /\ last.op \in {"hlist_del", "hlist_del_init"} /\ hlist_fake(pre, last.a) =>
          /\ ~hmem.ub
          /\ HSameButNode(hmem, pre, last.a)
          /\ ~hlist_fake(hmem, last.a)

\* C26 witness: hlist_del of a fake node while a chain of two exists
C26_Witness ==
    /\ HDid("hlist_del") /\ hlist_fake(pre, last.a)
    /\ hmem.pprev[last.a] = LIST_POISON2
    /\ \E h \in HHeads : Len(hlist_for_each(hmem, h)) = 2

\* the memory m with the first field of every head cleared
HeadsCleared(m) == [m EXCEPT !.first = [h \in HHeads |-> NULL]]

\* C27: hlist_is_singular_node(n, h) returns true iff n is the only node of
\* the chain rooted at h, for every well-formed chain and every node n
\* (linked in h, linked under another head, detached or fake), and it reads
\* only n's own fields, never h.first.
C27_SingularNode ==
    \A n \in HNodes, h \in HHeads :
        /\ hlist_is_singular_node(hmem, n, h) <=> hlist_for_each(hmem, h) = <<n>>
        /\ hlist_is_singular_node(HeadsCleared(hmem), n, h)
              = hlist_is_singular_node(hmem, n, h)
        /\ \A x \in HNodes \ {n} :
              hlist_is_singular_node(INIT_HLIST_NODE(hmem, x), n, h)
                 = hlist_is_singular_node(hmem, n, h)

\* C27 witness: one head has a single node, the other head is not empty, and
\* a fake node exists
C27_Witness ==
    /\ \E h \in HHeads : \E n \in HNodes :
          /\ hlist_is_singular_node(hmem, n, h)
          /\ \E g \in HHeads \ {h} : ~hlist_empty(hmem, g)
    /\ \E x \in HNodes : hlist_fake(hmem, x)

\* C28: hlist_move_list(old, new), with new empty and old != new, transfers
\* old's whole chain to new in the same order, sets the first node's pprev to
\* the address of new.first, leaves old empty, and changes no field of any
\* node other than the first; when old is empty, new ends empty.
C28_MoveListTransfers ==
    HDid("hlist_move_list") =>
        LET old == last.a
            new == last.b
            s == hlist_for_each(pre, old)
        IN  /\ ~hmem.ub
            /\ hlist_for_each(hmem, new) = s
            /\ hlist_empty(hmem, old)
            /\ s # <<>> => hmem.pprev[s[1]] = new /\ hmem.next[s[1]] = pre.next[s[1]]
            /\ \A x \in HNodes : s = <<>> \/ x # s[1] =>
                  hmem.next[x] = pre.next[x] /\ hmem.pprev[x] = pre.pprev[x]
            /\ \A g \in HHeads \ {old, new} : hmem.first[g] = pre.first[g]
            /\ s = <<>> => hlist_empty(hmem, new)

\* C28 witness: a chain of three was moved to the other head
C28_Witness ==
    /\ HDid("hlist_move_list")
    /\ Len(hlist_for_each(hmem, last.b)) = 3
    /\ hmem.pprev[hmem.first[last.b]] = last.b

\* the loop has given its body a prefix of the nodes the chain had, followed
\* no poisoned pointer and touched no removed node, and at its end has given
\* all of them and left the head empty
HIterSafe ==
    phase = "hiter" =>
        /\ ~iter.bad /\ ~hmem.ub
        /\ Len(iter.yielded) <= Len(iter.entries)
        /\ iter.yielded = SubSeq(iter.entries, 1, Len(iter.yielded))
        /\ iter.pc = "done" =>
              /\ iter.yielded = iter.entries
              /\ hlist_empty(hmem, iter.head)

\* C29: safe hash-list iteration (hlist_for_each_safe /
\* hlist_for_each_entry_safe) in which the body removes the just-yielded node
\* with hlist_del or hlist_del_init terminates, yields every node of the
\* chain exactly once in chain order, never follows a poisoned pointer, and
\* leaves the head empty.
C29_SafeHlistLoopDeletesAll ==
    /\ []HIterSafe
    /\ (phase = "hiter") ~> (iter.pc = "done")

\* C29 witness: a loop over a chain of three has ended, the first node was
\* removed with hlist_del
C29_Witness ==
    /\ phase = "hiter" /\ iter.pc = "done"
    /\ Len(iter.yielded) = 3
    /\ hmem.next[iter.yielded[1]] = LIST_POISON1

\* the arguments of the call are invalid
InvalidArgs ==
    \/ zlog.logfile = NULL
    \/ zlog.stds = 0 \/ zlog.stds > ZOROLOG_DUP_STDOUT + ZOROLOG_DUP_STDERR
    \/ zlog.flags > ZOROLOG_APPEND

\* C30: zorolog_duplicate returns 0 when duplication was set up and -1
\* whenever some error occurred, including when its arguments are invalid
\* (logfile NULL, stds equal to 0 or greater than
\* ZOROLOG_DUP_STDOUT|ZOROLOG_DUP_STDERR, flags greater than ZOROLOG_APPEND)
\* and when opening the log file, creating a pipe, duplicating a descriptor
\* or forking fails.
C30_ReturnsZeroOrMinusOne ==
    zlog.pc = "returned" =>
        /\ zlog.err = "none" => zlog.ret = 0 /\ zlog.child
        /\ zlog.err # "none" => zlog.ret = -1
        /\ InvalidArgs => zlog.ret = -1

\* what the code does: invalid arguments are answered with -EINVAL, every
\* other error with -1
C30_ReturnsMinusEinvalOnBadArgs ==
    zlog.pc = "returned" =>
        /\ zlog.err = "none" => zlog.ret = 0 /\ zlog.child
        /\ zlog.err \notin {"none", "args"} => zlog.ret = -1
        /\ InvalidArgs <=> zlog.err = "args"
        /\ InvalidArgs => zlog.ret = -EINVAL

\* C30 witness: a call with invalid arguments has returned
C30_Witness ==
    /\ zlog.pc = "returned" /\ zlog.err = "args"
    /\ zlog.logfile # NULL /\ zlog.stds = 4

\* the bytes of sequence s that the program wrote to stream i
OfStream(s, i) ==
    LET Mine(b) == b > i * 128 /\ b < (i + 1) * 128
    IN  SelectSeq(s, Mine)

\* the original stream that standard stream i of the program was
Original(i) == IF i = 0 THEN "stdout" ELSE "stderr"

\* everything the program wrote to the duplicated stream i went to the
\* original stream and to the log file, in the order written
Copied(i) ==
    /\ zlog.out[Original(i)] = zlog.written[i + 1]
    /\ OfStream(zlog.log, i) = zlog.written[i + 1]

\* C31: after zorolog_duplicate succeeds, every byte the program writes to a
\* duplicated standard stream is written by the logger process both to the
\* original stream and to the log file, in the order written per stream,
\* before the logger exits, including data still buffered in the pipe when
\* the writer closes its end or terminates.
C31_EverythingCopied ==
    zlog.lpc = "exited" =>
        \A i \in 0..(MAX_STANDARDS - 1) : zlog.lc.stdsdup[i + 1] # 0 => Copied(i)

\* what the code does guarantee: as long as no write of the program holds a
\* 0 byte or more than MAX_BUFFER_SIZE - 1 bytes, what reached the original
\* stream and the log file is a prefix of what the program wrote
C31_CopiesAPrefix ==
    \A i \in 0..(MAX_STANDARDS - 1) :
        (zlog.lc.stdsdup[i + 1] # 0 /\ Len(zlog.written[i + 1]) < MAX_BUFFER_SIZE
         /\ \A k \in 1..Len(zlog.written[i + 1]) : zlog.written[i + 1][k] # 0) =>
            /\ Len(zlog.out[Original(i)]) <= Len(zlog.written[i + 1])
            /\ zlog.out[Original(i)]
                   = SubSeq(zlog.written[i + 1], 1, Len(zlog.out[Original(i)]))
            /\ Len(OfStream(zlog.log, i)) <= Len(zlog.out[Original(i)])

\* C31 witness: the program wrote to a duplicated stream and terminated, and
\* the logger has exited
C31_Witness ==
    /\ zlog.lpc = "exited" /\ zlog.pexit
    /\ zlog.written[1] # <<>>

\* the logger exits although the program wrote more than MAX_BUFFER_SIZE
\* bytes and only MAX_BUFFER_SIZE of them were copied
C31_LostAtHangup ==
    /\ zlog.lpc = "exited"
    /\ Len(zlog.written[1]) = MAX_BUFFER_SIZE + 1
    /\ Len(zlog.out["stdout"]) = MAX_BUFFER_SIZE
    /\ Len(zlog.pipe[1]) = 1

\* the fields whose value differs between memories m1 and m2
Changed(m1, m2) ==
    {<<"next", o>> : o \in {x \in Objs : m1.next[x] # m2.next[x]}}
    \cup {<<"prev", o>> : o \in {x \in Objs : m1.prev[x] # m2.prev[x]}}

\* the stores of the observed list_bulk_move_tail
BulkStores == list_bulk_move_tail_stores(pre, last.a, last.b, last.c)

\* the entries strictly inside the run of the observed list_bulk_move_tail
Inside ==
    LET s == list_for_each(pre, last.a)
    IN  {s[k] : k \in {n \in 1..Len(s) : IndexOf(s, last.b) < n /\ n < IndexOf(s, last.c)}}

\* C32: list_bulk_move_tail(head, first, last) performs the relocation by
\* rewriting exactly four boundary links: the number of pointer fields it
\* writes is four, independent of the length of the run, and no linkage
\* field of a node strictly inside the run is written.
C32_FourFieldsWritten ==
    Did({"list_bulk_move_tail"}) =>
        /\ Cardinality(Range(BulkStores)) = 4
        /\ Changed(pre, mem) \subseteq Range(BulkStores)
        /\ \A o \in Inside : <<"next", o>> \notin Range(BulkStores)
                             /\ <<"prev", o>> \notin Range(BulkStores)

\* C32 as the code has it: list_bulk_move_tail performs six stores whatever
\* the length of the run, to six different fields, or to four when the run
\* already ends at the tail; every field that changes is one of them, and
\* no field of a node strictly inside the run is written.
C32_SixStores ==
    Did({"list_bulk_move_tail"}) =>
        /\ Len(BulkStores) = 6
        /\ Cardinality(Range(BulkStores)) =
               (IF RdNext(pre, last.c) = last.a THEN 4 ELSE 6)
        /\ Changed(pre, mem) \subseteq Range(BulkStores)
        /\ \A o \in Inside : <<"next", o>> \notin Range(BulkStores)
                             /\ <<"prev", o>> \notin Range(BulkStores)
        /\ \A o \in Inside : mem.next[o] = pre.next[o] /\ mem.prev[o] = pre.prev[o]

\* C32 witness: a run with an entry strictly inside it was the argument
C32_Witness ==
    /\ Did({"list_bulk_move_tail"})
    /\ Inside # {}

\* a run of one entry at the front of a list of three was moved: six fields
\* were written and changed
C32_SixFieldsChange ==
    /\ Did({"list_bulk_move_tail"})
    /\ Cardinality(Changed(pre, mem)) = 6

\* C33: list_add and list_add_tail change exactly the fields of the inserted
\* node, the next field of its new predecessor and the prev field of its new
\* successor; no field of any other node or head changes.
C33_AddFrame ==
    Did({"list_add", "list_add_tail"}) =>
        LET new == last.a
            p == RdPrev(mem, new)
            n == RdNext(mem, new)
        IN  /\ ~mem.ub
            /\ p = (IF last.op = "list_add" THEN last.b ELSE RdPrev(pre, last.b))
            /\ n = (IF last.op = "list_add" THEN RdNext(pre, last.b) ELSE last.b)
            /\ Changed(pre, mem) =
                   {<<"next", new>>, <<"prev", new>>, <<"next", p>>, <<"prev", n>>}
            /\ hmem = InitHMem

\* C33 witness: an entry was added at the front of a list of two, whose last
\* entry is neither the predecessor nor the successor
C33_Witness ==
    /\ Did({"list_add"})
    /\ last.b \in Heads
    /\ Len(list_for_each(pre, last.b)) = 2
    /\ Len(list_for_each(mem, last.b)) = 3

\* the heads whose chain node n is on
HHeadsOf(m, n) == {h \in HHeads : n \in Range(hlist_for_each(m, h))}

\* node n is detached: initialised or poisoned, and on no chain
IsDetached(m, n) ==
    /\ HRdPprev(m, n) \in {NULL, LIST_POISON2}
    /\ HHeadsOf(m, n) = {}

\* node n is linked: on the chain of exactly one head, once, and pprev names
\* the slot that points at it
IsLinked(m, n) ==
    /\ Cardinality(HHeadsOf(m, n)) = 1
    /\ \A h \in HHeadsOf(m, n) :
           Cardinality({k \in 1..Len(hlist_for_each(m, h)) : hlist_for_each(m, h)[k] = n}) = 1
    /\ HRdPprev(m, n) \in (HHeads \cup HNodes) \ {n}
    /\ HRdSlot(m, HRdPprev(m, n)) = n

\* node n is fake-linked: pprev == &next, and on no chain
IsFake(m, n) ==
    /\ HRdPprev(m, n) = n
    /\ HHeadsOf(m, n) = {}

\* C34: after any sequence of hash-list operations whose preconditions are
\* met, every hlist node is in exactly one of three states: detached
\* (initialised, reinitialised by hlist_del_init, or poisoned by hlist_del;
\* not reachable from any head), linked (reachable from exactly one head) or
\* fake-linked (pprev == &next, reachable from no head); no node is ever both
\* reachable from a head and reported fake by hlist_fake, and no node
\* reported unhashed by hlist_unhashed is reachable from a head.
C34_ThreeStates ==
    /\ ~hmem.ub
    /\ \A n \in HNodes :
          /\ Cardinality({s \in {"detached", "linked", "fake"} :
                 \/ s = "detached" /\ IsDetached(hmem, n)
                 \/ s = "linked" /\ IsLinked(hmem, n)
                 \/ s = "fake" /\ IsFake(hmem, n)}) = 1
          /\ ~(n \in HLinked(hmem) /\ hlist_fake(hmem, n))
          /\ ~(n \in HLinked(hmem) /\ hlist_unhashed(hmem, n))

\* C34 witness: a linked node, a fake-linked node and a node poisoned by
\* hlist_del exist at the same time
C34_Witness ==
    /\ \E n \in HNodes : IsLinked(hmem, n)
    /\ \E n \in HNodes : IsFake(hmem, n)
    /\ \E n \in HNodes : IsDetached(hmem, n) /\ HRdPprev(hmem, n) = LIST_POISON2

\* a call was made in phase "probe"
Probed(ops) == phase = "probe" /\ last.op \in ops

C35_EmptyHeadReplaced ==
    /\ Probed({"list_replace"})
    /\ last.a \in Heads /\ list_empty(pre, last.a)
    /\ SelfReferencing(mem, last.b)
    /\ mem.prev[last.a] = last.b

\* the nodes reachable from head by following next
ReachableFrom(m, head) == Range(list_for_each(m, head))

\* the nodes reachable from some head
AllReachable(m) == UNION {ReachableFrom(m, h) : h \in Heads}

\* C36: over a fixed set of heads and nodes, after any sequence of list_add,
\* list_add_tail, list_del, list_del_init, list_move, list_move_tail,
\* list_splice_init, list_splice_tail_init, list_cut_position and
\* list_cut_before (into an empty destination), list_bulk_move_tail,
\* list_rotate_left and list_swap, every node is reachable from at most one
\* head and occurs at most once in that head's list, and every operation
\* other than add and del leaves the set of linked nodes unchanged (no node
\* is lost or duplicated).
C36_NoNodeLostOrDuplicated ==
    phase = "keep" =>
        /\ ~mem.ub
        /\ \A n \in Nodes : Cardinality({h \in Heads : n \in ReachableFrom(mem, h)}) <= 1
        /\ \A h \in Heads :
              /\ WellFormed(mem, h)
              /\ \A n \in Nodes :
                    Cardinality({k \in 1..Len(list_for_each(mem, h)) :
                                    list_for_each(mem, h)[k] = n}) <= 1
        /\ last.op \notin {"none", "list_add", "list_add_tail", "list_del", "list_del_init"} =>
              AllReachable(mem) = AllReachable(pre)

\* C36 witness: list_splice_tail_init has joined a list of one entry to a
\* list of two
C36_Witness ==
    /\ phase = "keep"
    /\ last.op = "list_splice_tail_init"
    /\ Len(list_for_each(pre, last.a)) = 1
    /\ Len(list_for_each(pre, last.b)) = 2
    /\ Len(list_for_each(mem, last.b)) = 3

\* C37: list_cut_position(list, head, entry) returns without writing any
\* field of list, of head or of any node when head is empty, and when head
\* has exactly one entry and entry is neither that entry nor head; in these
\* cases list is not initialised and keeps whatever next/prev values it had
\* before the call.
C37_CutPositionReturnsEarly ==
    Probed({"list_cut_position"}) =>
        LET list == last.a
            head == last.b
            entry == last.c
        IN  (\/ list_for_each(pre, head) = <<>>
             \/ /\ Len(list_for_each(pre, head)) = 1
                /\ entry # list_for_each(pre, head)[1]
                /\ entry # head) =>
                /\ mem = pre
                /\ mem.next[list] = pre.next[list] /\ mem.prev[list] = pre.prev[list]

\* C37 witness: head has one entry, entry is another object, and list is a
\* node that list_del has poisoned and that is still poisoned
C37_Witness ==
    /\ Probed({"list_cut_position"})
    /\ Len(list_for_each(pre, last.b)) = 1
    /\ last.c # list_for_each(pre, last.b)[1]
    /\ last.c # last.b
    /\ pre.next[last.a] = LIST_POISON1
    /\ mem.next[last.a] = LIST_POISON1 /\ mem.prev[last.a] = LIST_POISON2

\* head is empty and list is a poisoned node that stays poisoned
C37_EmptyHeadWitness ==
    /\ Probed({"list_cut_position"})
    /\ list_for_each(pre, last.b) = <<>>
    /\ mem.next[last.a] = LIST_POISON1

\* C38: list_del_init and hlist_del_init are idempotent: applying either one
\* a second time to the node it has just removed and reinitialised changes
\* no field of any node or head (hlist_del_init on an unhashed node does
\* nothing; list_del_init on a self-referencing node leaves it
\* self-referencing).
C38_DelInitIdempotent ==
    /\ (phase = "again" /\ last.op = "list_del_init") =>
          /\ mem = pre
          /\ SelfReferencing(mem, last.a)
    /\ (phase = "again" /\ last.op = "hlist_del_init") =>
          /\ hmem = pre
          /\ hlist_unhashed(hmem, last.a)
          /\ HRdNext(hmem, last.a) = NULL

\* C38 witness: list_del_init was called twice on an entry, with other
\* entries still on the list
C38_Witness ==
    /\ phase = "again" /\ last.op = "list_del_init"
    /\ Len(hist) = 2 /\ hist[1] = hist[2]
    /\ Linked(mem) # {}

\* hlist_del_init was called twice on a node, with other nodes still on the
\* chain
C38_HlistWitness ==
    /\ phase = "again" /\ last.op = "hlist_del_init"
    /\ Len(hist) = 2 /\ hist[1] = hist[2]
    /\ HLinked(hmem) # {}

\* memories m1 and m2 hold the same lists
SameLists(m1, m2) ==
    \A h \in Heads : /\ list_for_each(m1, h) = list_for_each(m2, h)
                     /\ list_for_each_prev(m1, h) = list_for_each_prev(m2, h)

\* C39: list_swap is symmetric and an involution: for distinct linked nodes
\* a and b, list_swap(a, b) and list_swap(b, a) produce the same lists, and
\* applying list_swap(a, b) twice restores every list to its original order,
\* including when a and b are adjacent.
C39_SwapSymmetricInvolution ==
    /\ Probed({"list_swap"}) =>
          /\ ~mem.ub
          /\ SameLists(mem, list_swap(pre, last.b, last.a))
          /\ \A h \in Heads : WellFormed(mem, h)
    /\ (phase = "again" /\ last.op = "list_swap") =>
          /\ ~mem.ub
          /\ SameLists(mem, pre)
          /\ \A h \in Heads : WellFormed(mem, h)

\* C39 witness: two adjacent entries of a list of three were swapped twice
C39_Witness ==
    /\ phase = "again" /\ last.op = "list_swap"
    /\ pre.next[last.a] = last.b
    /\ \E h \in Heads : Len(list_for_each(mem, h)) = 3

\* entries of two different lists were swapped twice
C39_TwoListsWitness ==
    /\ phase = "again" /\ last.op = "list_swap"
    /\ \E h \in Heads : Member(pre, last.a, h) /\ ~Member(pre, last.b, h)

\* the list the reader walks as it is when the insertion is complete
FinalEntries ==
    IF phase = "adding"
    THEN list_for_each(IF last.op = "list_add" THEN list_add(pre, last.a, last.b)
                       ELSE list_add_tail(pre, last.a, last.b), iter.head)
    ELSE hlist_for_each(HAddUpto(4), iter.head)

\* the reader has finished: it ended at the head (at NULL) and was given
\* every node linked before, once and in order, the new node being absent
\* or at its final position
ReaderSawList ==
    iter.pc = "done" =>
        /\ ~iter.bad
        /\ iter.yielded \in {iter.entries, FinalEntries}

\* the new node can be reached forwards from a head only if its next field
\* was written
NewReachableAfterNext ==
    /\ phase = "adding" =>
          (careful.e \in AllReachable(mem) => 2 \in careful.stored)
    /\ phase = "hadding" =>
          (careful.e \in HLinked(hmem) =>
              (IF last.op = "hlist_add_before" THEN 2 ELSE 1) \in careful.stored)

C40_ReaderLost ==
    /\ phase = "adding"
    /\ iter.pc = "done" /\ iter.bad
    /\ 2 \notin careful.stored

=============================================================================
